---- MODULE Spec2Model ----
(***************************************************************************)
(* A model of poeminv's rule-matching and inference engine                 *)
(* (src/poeminv/config.py): criteria, match configs, the resolution of     *)
(* emission factors and the two-pass vessel info guesser.                  *)
(*                                                                         *)
(* Python values are dynamically typed.  A value is modelled as a record   *)
(* [t, n, s]: t is the type tag ("num", "str" or "none"), n the number and *)
(* s the string, so that == between values of different types is FALSE     *)
(* as it is in Python.  Dictionaries are functions from a finite set of    *)
(* strings.  A call's outcome is "True", "False" or the name of the        *)
(* exception that escapes it.                                              *)
(***************************************************************************)
EXTENDS FiniteSets, Integers, Sequences, TLC

VARIABLES
    \* -- criteria and match configs under test (SpecMatch) --
    m_op,        \* the last operation: "none", "criterion" or "match_config"
    m_criterion, \* the criterion Criterion.matches was called on
    m_criteria,  \* the criteria of the MatchConfig matches was called on
    m_values,    \* the keyword arguments of the call
    m_result,    \* the outcome of the call
    \* -- VesselInfoGuesser (SpecGuess) --
    guess_data,                 \* VesselInfoGuesser._guess_data
    average_vessel_build_times, \* ._average_vessel_build_times
    g_pc,      \* "idle", "pass1", "pass1_done", "pass2", "done", "raised"
    g_input,   \* the keyword arguments guess_missing_vessel_info got
    g_values,  \* the local values (keel_laid_year may be popped from it)
    g_attrs,   \* the local attrs; the result when g_pc = "done"
    g_i,       \* the index of the guess rule the loop is at
    g_kly,     \* the derived keel_laid_year of the second pass, or None
    g_error,   \* the exception raised when g_pc = "raised"
    g_src,     \* history: attribute -> index of the rule it came from
    g_hits,    \* history: the rules that matched in the current pass
    g_attrs1,  \* history: attrs at the end of the first pass
    \* -- EmissionConfigs (SpecEmission) --
    base_values,                 \* EmissionConfigs._base_values
    pollutants,                  \* ._pollutants
    engine_powers,               \* ._engine_powers
    low_load_adjustment_factors, \* ._low_load_adjustment_factors
    e_pc,           \* "idle", or "done" after config_for returned
    e_vessel_info,  \* dc.asdict(vessel_info) of the call
    e_mode,         \* the mode of the call
    e_config,       \* the EmissionConfig config_for returned
    \* -- the registry of criterion names (SpecRegistry) --
    r_name_validators, \* CriterionMeta._name_validators
    r_registered,  \* history: the names register_name has added
    r_before,      \* history: _name_validators before the call
    r_op,          \* "none", "register" or "construct"
    r_name,        \* the name register_name was called with
    r_validator,   \* the validation predicate it was called with
    r_criterion,   \* the criterion whose constructor was called
    r_result,      \* "ok" or the exception the call raised
    \* -- a Track (SpecTrack) --
    t_track,          \* the Track: [positions, segments]
    t_op,             \* "none", "append" or "sanitized"
    t_result,         \* "ok" or the exception the call raised
    t_dicts,          \* the position dicts sanitized_from_positions got
    t_sog_kind,       \* its sog_is_plausible
    t_distance_kind,  \* its distance_covered_is_plausible
    \* -- a Position (SpecPosition) --
    position,     \* the Position object
    p_before,     \* history: the object before the call
    p_op,         \* "none", "stw", "tide_flow" or "tide_bearing"
    p_value,      \* the value assigned to tide_flow or tide_bearing
    p_result,     \* "ok" or the exception the call raised
    p_read,       \* history: the value of the last stw read, <<>> if none
    p_prev_read,  \* history: the value of the stw read before that one
    \* -- a SegmentDurationSanitizer (SpecSanitizer) --
    max_fuel_calc_distance_deviation,
    max_fuel_calc_duration_increase_factor,
    s_pc,       \* "idle", or "done" after adjusted_segment_hours returned
    s_segment,  \* the segment of the call
    s_hours,    \* the hours it returned
    \* -- an EmissionCalculator and its Config (SpecCalculator) --
    sea_margin_adjustment_factor,  \* Config.sea_margin_adjustment_factor
    c_vessel_info,  \* dc.asdict(EmissionCalculator.vessel_info)
    c_op,      \* "none", "load", "segment", "track" or "mooring"
    c_stw,     \* the stw propulsion_load_at_stw was called with
    c_mode,    \* the mode of the call
    c_track,   \* the track calculate_track_emissions was called with
    c_hours,   \* the hours of the duration of calculate_mooring_emissions
    c_config,  \* history: the emission configs resolved during the call
    c_error,   \* "" or the exception the call raised
    c_load,    \* the load propulsion_load_at_stw returned
    c_result,  \* the emissions the call returned
    \* -- the construction of an EmissionConfigs (SpecConstruct) --
    k_engine_powers,  \* the engine_powers argument of the constructor
    k_result,         \* "", "ok" or the exception the constructor raised
    \* -- a generator surrounding_context_iter(...) (SpecContextIter) --
    i_iterable,   \* the elements of the iterable
    past_context_size,
    future_context_size,
    i_consumed,   \* how many elements the for loop has taken
    i_past,       \* the deque past
    i_future,     \* the deque future
    i_pc,         \* "start", "for" or "while" (suspended at that loop's
                  \* yield) or "done"
    i_yielded,    \* history: the (past, current, future) of every yield
    \* -- a call of Track.partial_track on t_track (SpecPartial) --
    b_op,         \* "none" or "partial"
    b_start_ts,
    b_end_ts,
    b_before,     \* history: the track when the call began
    b_returned,   \* the track returned, EmptyTrack if none
    b_is_self,    \* the track returned is the object it was called on
    b_error       \* "" or the exception the call raised

m_vars == <<m_op, m_criterion, m_criteria, m_values, m_result>>
g_vars == <<guess_data, average_vessel_build_times, g_pc, g_input, g_values,
            g_attrs, g_i, g_kly, g_error, g_src, g_hits, g_attrs1>>
e_vars == <<base_values, pollutants, engine_powers,
            low_load_adjustment_factors, e_pc, e_vessel_info, e_mode,
            e_config>>
r_vars == <<r_name_validators, r_registered, r_before, r_op, r_name,
            r_validator, r_criterion, r_result>>
\* the variables of the machines other than the three above
t_vars == <<t_track, t_op, t_result, t_dicts, t_sog_kind, t_distance_kind>>
p_vars == <<position, p_before, p_op, p_value, p_result, p_read,
            p_prev_read>>
s_vars == <<max_fuel_calc_distance_deviation,
            max_fuel_calc_duration_increase_factor, s_pc, s_segment, s_hours>>
c_vars == <<sea_margin_adjustment_factor, c_vessel_info, c_op, c_stw, c_mode,
            c_track, c_hours, c_config, c_error, c_load, c_result>>
k_vars == <<k_engine_powers, k_result>>
\* the variables of the machines after the calculator
i_vars == <<i_iterable, past_context_size, future_context_size, i_consumed,
            i_past, i_future, i_pc, i_yielded>>
b_vars == <<b_op, b_start_ts, b_end_ts, b_before, b_returned, b_is_self,
            b_error>>
n_vars == <<k_vars, i_vars, b_vars>>
x_vars == <<r_vars, t_vars, p_vars, s_vars, c_vars, n_vars>>

-----------------------------------------------------------------------------
(* Values *)

Num(n) == [t |-> "num", n |-> n, s |-> ""]
Str(s) == [t |-> "str", n |-> 0, s |-> s]
None == [t |-> "none", n |-> 0, s |-> ""]

\* isinstance(v, numbers.Number)
IsNumber(v) == v.t = "num"

\* bool(v): None, 0 and '' are falsy
Truthy(v) ==
    CASE v.t = "none" -> FALSE
      [] v.t = "num" -> v.n # 0
      [] OTHER -> v.s # ""

EmptyDict == [k \in {} |-> None]

\* the dictionary {k1: v1}
Dict1(k1, v1) == [k \in {k1} |-> v1]

\* a | b for dictionaries: the right operand wins
DictUnion(a, b) ==
    [k \in DOMAIN a \cup DOMAIN b |-> IF k \in DOMAIN b THEN b[k] ELSE a[k]]

\* the dictionary d without the key k
DictWithout(d, k) == [j \in DOMAIN d \ {k} |-> d[j]]

\* d.get(k), None when absent
Get(d, k) == IF k \in DOMAIN d THEN d[k] ELSE None

-----------------------------------------------------------------------------
(* Numbers that are not integers.  Python computes with floats; the model  *)
(* computes with exact fractions [n, d], d > 0, in lowest terms, so that   *)
(* equal numbers are equal records.                                        *)

Abs(a) == IF a < 0 THEN 0 - a ELSE a

RECURSIVE GCD(_, _)
GCD(a, b) == IF b = 0 THEN a ELSE GCD(b, a % b)

\* the fraction n / d, d # 0
Rat(n, d) ==
    LET g == GCD(Abs(n), Abs(d))
        sign == IF d < 0 THEN 0 - 1 ELSE 1
    IN  [n |-> (sign * n) \div g, d |-> (sign * d) \div g]

RInt(n) == [n |-> n, d |-> 1]
RAdd(a, b) == Rat(a.n * b.d + b.n * a.d, a.d * b.d)
RSub(a, b) == Rat(a.n * b.d - b.n * a.d, a.d * b.d)
RMul(a, b) == Rat(a.n * b.n, a.d * b.d)
\* a / b, b # 0
RDiv(a, b) == Rat(a.n * b.d, a.d * b.n)
RLt(a, b) == a.n * b.d < b.n * a.d
RLe(a, b) == a.n * b.d <= b.n * a.d
\* Python's min(a, b): b if b < a, else a
RMin(a, b) == IF RLt(b, a) THEN b ELSE a

-----------------------------------------------------------------------------
(* Range and the Criterion variants *)

\* Range.__contains__ with the upper bound included
Range_contains_closed(ge, lt, value) ==
    IF ~(IsNumber(ge) /\ IsNumber(value)) THEN "TypeError"
    ELSE IF ~(ge.n <= value.n) THEN "False"
    ELSE IF ~IsNumber(lt) THEN "TypeError"
    ELSE IF value.n <= lt.n THEN "True" ELSE "False"

\* ge <= value < lt; the comparison of a number with None or a string
\* raises TypeError.  The chain evaluates value < lt only if ge <= value.
Range_contains(ge, lt, value) ==
    IF ~(IsNumber(ge) /\ IsNumber(value)) THEN "TypeError"
    ELSE IF ~(ge.n <= value.n) THEN "False"
    ELSE IF ~IsNumber(lt) THEN "TypeError"
    ELSE IF value.n < lt.n THEN "True" ELSE "False"

\* A criterion is a record [kind, name, value, ge, lt, criteria]; the fields
\* a variant does not have hold None / <<>>.
EqualsCriterion(name, value) ==
    [kind |-> "equals", name |-> name, value |-> value,
     ge |-> None, lt |-> None, criteria |-> <<>>]
RangeCriterion(name, ge, lt) ==
    [kind |-> "range", name |-> name, value |-> None,
     ge |-> ge, lt |-> lt, criteria |-> <<>>]
DisjunctionCriterion(name, criteria) ==
    [kind |-> "any_of", name |-> name, value |-> None,
     ge |-> None, lt |-> None, criteria |-> criteria]

EqualsCriterion_matches(c, values) ==
    IF c.name \notin DOMAIN values THEN "False"  \* except KeyError
    ELSE IF values[c.name] = c.value THEN "True" ELSE "False"

RangeCriterion_matches(c, values) ==
    IF c.name \notin DOMAIN values THEN "False"  \* except KeyError
    ELSE LET r == Range_contains(c.ge, c.lt, values[c.name])
         IN  IF r = "TypeError" THEN "False" ELSE r  \* except TypeError

RECURSIVE Criterion_matches(_, _)
RECURSIVE any_matches(_, _)

\* any(c.matches(**values) for c in criteria): stops at the first True, an
\* exception of a sub-criterion escapes
any_matches(criteria, values) ==
    IF criteria = <<>> THEN "False"
    ELSE LET r == Criterion_matches(Head(criteria), values)
         IN  IF r = "False" THEN any_matches(Tail(criteria), values) ELSE r

DisjunctionCriterion_matches(c, values) == any_matches(c.criteria, values)

Criterion_matches(c, values) ==
    CASE c.kind = "equals" -> EqualsCriterion_matches(c, values)
      [] c.kind = "range" -> RangeCriterion_matches(c, values)
      [] OTHER -> DisjunctionCriterion_matches(c, values)

-----------------------------------------------------------------------------
(* MatchConfig: criteria is the sequence of the criteria dict's values in  *)
(* insertion order (their names are distinct), data is a dictionary        *)

MatchConfig(criteria, data) == [criteria |-> criteria, data |-> data]

\* set(c.criteria): the names of the criteria
CriteriaNames(criteria) == {criteria[i].name : i \in DOMAIN criteria}

RECURSIVE all_match(_, _)
\* all(c.matches(**values) for c in criteria): stops at the first False
all_match(criteria, values) ==
    IF criteria = <<>> THEN "True"
    ELSE LET r == Criterion_matches(Head(criteria), values)
         IN  IF r = "True" THEN all_match(Tail(criteria), values) ELSE r

\* matches() with any() in the place of all()
MatchConfig_matches_any(match_config, values) ==
    any_matches(match_config.criteria, values)

MatchConfig_matches(match_config, values) ==
    all_match(match_config.criteria, values)

-----------------------------------------------------------------------------
(* Construction-time validation of criteria *)

EngineCategory == {"c1", "c2", "c3"}
EngineNOxTier == 0..3
EngineGroup == {"propulsion", "auxiliary", "boiler"}

\* The ship types of the model, a part of the source's table that keeps a
\* type without a unit ('misc', the type of the validation defaults) and
\* two types with the same unit.
VALID_SHIP_TYPE_SIZE_UNITS ==
    [st \in {"misc", "bulk_carrier", "oil_tanker"} |->
        IF st = "misc" THEN {"n/a"} ELSE {"dwt"}]

ShipSizeUnit == UNION {VALID_SHIP_TYPE_SIZE_UNITS[st] :
                          st \in DOMAIN VALID_SHIP_TYPE_SIZE_UNITS}

\* CriterionMeta._name_validators: the legal names and the kind of validator
\* of each ("" for None)
name_validators ==
    [name \in {"max_speed", "engine_kw", "engine_rpm", "engine_category",
               "engine_nox_tier", "ship_type", "size", "size_unit",
               "engine_group", "length", "width", "ais_type",
               "keel_laid_year"} |->
        CASE name \in {"max_speed", "engine_kw", "engine_rpm", "size",
                       "length", "width"} -> "non_negative"
          [] name = "engine_category" -> "EngineCategory"
          [] name = "engine_nox_tier" -> "EngineNOxTier"
          [] name = "ship_type" -> "VALID_SHIP_TYPE_SIZE_UNITS"
          [] name = "size_unit" -> "ShipSizeUnit"
          [] name = "engine_group" -> "EngineGroup"
          [] OTHER -> ""]

\* the validation predicates: op.le(0, v) raises TypeError unless v is a
\* number, the containment checks compare by value; "less_than_2" is a
\* predicate a caller registers, lambda x: x < 2
validation_predicate(kind, v) ==
    CASE kind = "non_negative" ->
            IF ~IsNumber(v) THEN "TypeError"
            ELSE IF 0 <= v.n THEN "True" ELSE "False"
      [] kind = "EngineCategory" ->
            IF v.t = "str" /\ v.s \in EngineCategory THEN "True" ELSE "False"
      [] kind = "EngineNOxTier" ->
            IF v.t = "num" /\ v.n \in EngineNOxTier THEN "True" ELSE "False"
      [] kind = "VALID_SHIP_TYPE_SIZE_UNITS" ->
            IF v.t = "str" /\ v.s \in DOMAIN VALID_SHIP_TYPE_SIZE_UNITS
            THEN "True" ELSE "False"
      [] kind = "ShipSizeUnit" ->
            IF v.t = "str" /\ v.s \in ShipSizeUnit THEN "True" ELSE "False"
      [] kind = "EngineGroup" ->
            IF v.t = "str" /\ v.s \in EngineGroup THEN "True" ELSE "False"
      [] kind = "less_than_2" ->
            IF ~IsNumber(v) THEN "TypeError"
            ELSE IF v.n < 2 THEN "True" ELSE "False"
      [] OTHER -> "True"

RECURSIVE value_fulfills(_, _)
RECURSIVE all_value_fulfills(_, _)

all_value_fulfills(criteria, kind) ==
    IF criteria = <<>> THEN "True"
    ELSE LET r == value_fulfills(Head(criteria), kind)
         IN  IF r = "True" THEN all_value_fulfills(Tail(criteria), kind)
             ELSE r

\* Criterion._value_fulfills of the three variants
value_fulfills(c, kind) ==
    CASE c.kind = "equals" -> validation_predicate(kind, c.value)
      [] c.kind = "range" -> "True"
      [] OTHER -> all_value_fulfills(c.criteria, kind)

\* Criterion._assert_valid: "ok", or the exception the constructor raises
assert_valid(c, validators) ==
    IF c.name \notin DOMAIN validators THEN "ValueError"
    ELSE IF validators[c.name] = "" THEN "ok"
    ELSE LET r == value_fulfills(c, validators[c.name])
         IN  CASE r = "True" -> "ok"
               [] r = "False" -> "ValueError"
               [] OTHER -> r

RECURSIVE Constructible(_)
\* the criterion can be built: its sub-criteria can, they carry its name and
\* _assert_valid passes
Constructible(c) ==
    /\ \A i \in DOMAIN c.criteria :
          Constructible(c.criteria[i]) /\ c.criteria[i].name = c.name
    /\ assert_valid(c, name_validators) = "ok"

-----------------------------------------------------------------------------
(* VesselInfo and the VesselInfoGuesser *)

FIELD_NAMES == {"max_speed", "engine_kw", "engine_rpm", "engine_category",
                "engine_nox_tier", "ship_type", "size", "size_unit"}

\* VesselInfo(**kwargs) succeeds: exactly the eight fields (else TypeError)
\* and __post_init__'s assertions hold (a failed comparison or lookup is a
\* ValueError too)
VesselInfo_valid(kwargs) ==
    /\ DOMAIN kwargs = FIELD_NAMES
    /\ IsNumber(kwargs["max_speed"]) /\ kwargs["max_speed"].n > 0
    /\ IsNumber(kwargs["engine_kw"]) /\ kwargs["engine_kw"].n > 0
    /\ IsNumber(kwargs["engine_rpm"]) /\ kwargs["engine_rpm"].n > 0
    /\ validation_predicate("EngineCategory", kwargs["engine_category"])
          = "True"
    /\ validation_predicate("EngineNOxTier", kwargs["engine_nox_tier"])
          = "True"
    /\ IsNumber(kwargs["size"]) /\ kwargs["size"].n >= 0
    /\ kwargs["ship_type"].t = "str"
    /\ kwargs["ship_type"].s \in DOMAIN VALID_SHIP_TYPE_SIZE_UNITS
    /\ kwargs["size_unit"].t = "str"
    /\ kwargs["size_unit"].s
          \in VALID_SHIP_TYPE_SIZE_UNITS[kwargs["ship_type"].s]

vessel_info_default_kwargs ==
    [k \in FIELD_NAMES |->
        CASE k = "engine_category" -> Str("c1")
          [] k = "ship_type" -> Str("misc")
          [] k = "size" -> Num(0)
          [] k = "size_unit" -> Str("n/a")
          [] OTHER -> Num(1)]

type_and_size == {"ship_type", "size", "size_unit"}

\* VALID_SHIP_TYPE_SIZE_UNITS.get(ship_type, [])
valid_units(ship_type) ==
    IF ship_type.t = "str" /\ ship_type.s \in DOMAIN VALID_SHIP_TYPE_SIZE_UNITS
    THEN VALID_SHIP_TYPE_SIZE_UNITS[ship_type.s] ELSE {}

\* the ship types a rule counts for in ship_type_sizes_seen
ship_type_sizes_seen_by(c) ==
    IF CriteriaNames(c.criteria) = {"ship_type"} /\ "size" \in DOMAIN c.data
    THEN {st \in DOMAIN VALID_SHIP_TYPE_SIZE_UNITS :
             all_match(c.criteria, [k \in {"ship_type"} |-> Str(st)])
                = "True"}
    ELSE {}

\* VesselInfoGuesser._assert_valid_config: TRUE iff no ValueError is raised
VesselInfoGuesser_assert_valid_config(guess, build_times) ==
    /\ \A i \in DOMAIN guess :
          LET c == guess[i]
          IN  /\ VesselInfo_valid(DictUnion(vessel_info_default_kwargs,
                                            c.data))
              /\ (type_and_size \cap DOMAIN c.data # {}) =>
                    /\ type_and_size \subseteq DOMAIN c.data
                    /\ c.data["size_unit"].t = "str"
                    /\ c.data["size_unit"].s
                          \in valid_units(c.data["ship_type"])
    /\ FIELD_NAMES \subseteq
          UNION {DOMAIN guess[i].data :
                    i \in {j \in DOMAIN guess : guess[j].criteria = <<>>}}
    /\ DOMAIN VALID_SHIP_TYPE_SIZE_UNITS \subseteq
          UNION {ship_type_sizes_seen_by(guess[i]) : i \in DOMAIN guess}
    /\ \A i \in DOMAIN build_times :
          /\ "build_time_years" \in DOMAIN build_times[i].data
          /\ IsNumber(build_times[i].data["build_time_years"])
    /\ \E i \in DOMAIN build_times : build_times[i].criteria = <<>>

\* _attrs_with_extra_data that lets the rule's data win over attrs
attrs_with_extra_data_data_wins(attrs, data) ==
    LET usable_new_attrs ==
            [k \in DOMAIN data \ {"size", "size_unit"} |-> data[k]]
        merged == DictUnion(attrs, usable_new_attrs)
        existing_ship_type == Get(merged, "ship_type")
        new_ship_type == Get(data, "ship_type")
    IN  IF new_ship_type # None
           /\ (existing_ship_type = None
                 \/ existing_ship_type = new_ship_type)
        THEN DictUnion([k \in {"size", "size_unit"} |-> data[k]], merged)
        ELSE merged

\* _attrs_with_extra_data that takes the size of any rule with a ship type
attrs_with_extra_data_any_ship_type(attrs, data) ==
    LET usable_new_attrs ==
            [k \in DOMAIN data \ {"size", "size_unit"} |-> data[k]]
        merged == DictUnion(usable_new_attrs, attrs)
        new_ship_type == Get(data, "ship_type")
    IN  IF new_ship_type # None
        THEN DictUnion([k \in {"size", "size_unit"} |-> data[k]], merged)
        ELSE merged

\* VesselInfoGuesser._attrs_with_extra_data
attrs_with_extra_data(attrs, data) ==
    LET usable_new_attrs ==
            [k \in DOMAIN data \ {"size", "size_unit"} |-> data[k]]
        merged == DictUnion(usable_new_attrs, attrs)
        existing_ship_type == Get(merged, "ship_type")
        new_ship_type == Get(data, "ship_type")
    IN  IF new_ship_type # None
           /\ (existing_ship_type = None
                 \/ existing_ship_type = new_ship_type)
        THEN DictUnion([k \in {"size", "size_unit"} |-> data[k]], merged)
        ELSE merged

\* the index of the first build-time rule that matches, 0 if none does
\* (next() then raises StopIteration)
RECURSIVE first_matching(_, _, _)
first_matching(configs, values, i) ==
    IF i > Len(configs) THEN 0
    ELSE IF MatchConfig_matches(configs[i], values) = "True" THEN i
    ELSE first_matching(configs, values, i + 1)

\* _find_average_build_time that takes the first rule without matching
find_average_build_time_unmatched(build_times, values) ==
    IF build_times = <<>> THEN None
    ELSE build_times[1].data["build_time_years"]

\* VesselInfoGuesser._find_average_build_time: the number, or None when
\* StopIteration is raised
find_average_build_time(build_times, values) ==
    LET i == first_matching(build_times, values, 1)
    IN  IF i = 0 THEN None ELSE build_times[i].data["build_time_years"]

\* the guard of guess_missing_vessel_info that raises ValueError
size_without_ship_type(values) ==
    /\ Get(values, "ship_type") = None
    /\ Truthy(Get(values, "size")) \/ Get(values, "size_unit") # None

\* the condition without the check of the popped keel_laid_year
improve_nox_tier_guess_any_keel_laid_year(attrs, values, popped) ==
    /\ attrs["engine_category"] = Str("c3")
    /\ Get(values, "year_of_build") # None

\* a seed of attrs that drops every falsy value
seed_attrs_truthy(values) ==
    [k \in {j \in DOMAIN values \cap FIELD_NAMES : Truthy(values[j])} |->
        values[k]]

\* the seed of attrs: the VesselInfo fields of values that are not None
seed_attrs(values) ==
    [k \in {j \in DOMAIN values \cap FIELD_NAMES : values[j] # None} |->
        values[k]]

\* the condition of _maybe_improve_nox_tier_guess; values is the dict after
\* keel_laid_year was popped from it, popped the value popped
improve_nox_tier_guess(attrs, values, popped) ==
    /\ attrs["engine_category"] = Str("c3")
    /\ popped = None
    /\ Get(values, "year_of_build") # None

RECURSIVE guess_missing_attrs(_, _, _, _)
\* VesselInfoGuesser._guess_missing_attrs, from the i-th rule on
guess_missing_attrs(rules, attrs, values, i) ==
    IF i > Len(rules) THEN attrs
    ELSE LET match_config == rules[i]
             new_attrs ==
                 IF MatchConfig_matches(match_config,
                                        DictUnion(values, attrs)) = "True"
                 THEN attrs_with_extra_data(attrs, match_config.data)
                 ELSE attrs
         IN  IF Cardinality(DOMAIN new_attrs) = Cardinality(FIELD_NAMES)
             THEN new_attrs
             ELSE guess_missing_attrs(rules, new_attrs, values, i + 1)

\* VesselInfoGuesser._maybe_improve_nox_tier_guess: the attrs returned and
\* "" or the exception raised
maybe_improve_nox_tier_guess(rules, build_times, attrs, all_values) ==
    LET popped == Get(all_values, "keel_laid_year")
        values == DictWithout(all_values, "keel_laid_year")
        less_attrs == DictWithout(attrs, "engine_nox_tier")
        build_time == find_average_build_time(build_times,
                                              DictUnion(values, less_attrs))
    IN  IF "engine_category" \notin DOMAIN attrs
        THEN [attrs |-> attrs, error |-> "KeyError"]
        ELSE IF ~improve_nox_tier_guess(attrs, values, popped)
        THEN [attrs |-> attrs, error |-> ""]
        ELSE IF "engine_nox_tier" \notin DOMAIN attrs
        THEN [attrs |-> attrs, error |-> "KeyError"]
        ELSE IF build_time = None
        THEN [attrs |-> less_attrs, error |-> "StopIteration"]
        ELSE [attrs |->
                 guess_missing_attrs(
                     rules, less_attrs,
                     DictUnion(values,
                               Dict1("keel_laid_year",
                                     Num(values["year_of_build"].n
                                           - build_time.n))), 1),
              error |-> ""]

\* VesselInfoGuesser.guess_missing_vessel_info(**values) as a whole: the
\* dict returned and "" or the exception raised
guess_missing_vessel_info(rules, build_times, values) ==
    IF size_without_ship_type(values)
    THEN [attrs |-> EmptyDict, error |-> "ValueError"]
    ELSE LET attrs == guess_missing_attrs(rules, seed_attrs(values),
                                          values, 1)
         IN  IF "engine_nox_tier" \notin DOMAIN values
             THEN maybe_improve_nox_tier_guess(rules, build_times, attrs,
                                               values)
             ELSE [attrs |-> attrs, error |-> ""]

-----------------------------------------------------------------------------
(* EmissionConfigs *)

Mode == {"transit", "maneuvering", "hotelling", "anchorage"}
EMISSIONS_ENGINE_GROUPS == {"propulsion", "auxiliary", "boiler"}
ENGINE_POWER_ENGINE_GROUPS == {"auxiliary", "boiler"}

\* the engine groups an engine-power rule is a default for
default_engine_powers_of(c) ==
    IF CriteriaNames(c.criteria) = {"engine_group"}
    THEN {p \in {"auxiliary", "boiler"} :
             Criterion_matches(c.criteria[1], Dict1("engine_group", Str(p)))
                = "True"}
    ELSE {}

\* EmissionConfigs._assert_valid_config: TRUE iff no ValueError is raised.
\* A low-load rule's data is [range_factors |-> <<[range, factors], ...>>].
EmissionConfigs_assert_valid_config(base, polls, powers, low_load) ==
    /\ \A name \in DOMAIN base : \A i \in DOMAIN base[name] :
          IsNumber(Get(base[name][i].data, "g_per_kwh"))
    /\ \A name \in DOMAIN polls : \A i \in DOMAIN polls[name] :
          LET data == polls[name][i].data
          IN  /\ Get(data, "base_value_name").t = "str"
              /\ Get(data, "base_value_name").s \in DOMAIN base
              /\ "multiplier" \in DOMAIN data => IsNumber(data["multiplier"])
              /\ "offset_g_per_kwh" \in DOMAIN data =>
                    IsNumber(data["offset_g_per_kwh"])
    /\ \A i \in DOMAIN powers : \A mode \in Mode :
          IsNumber(Get(powers[i].data, mode))
    /\ {"auxiliary", "boiler"} \subseteq
          UNION {default_engine_powers_of(powers[i]) : i \in DOMAIN powers}
    /\ \A i \in DOMAIN low_load :
          /\ low_load[i].data.range_factors # <<>>
          /\ \A r \in DOMAIN low_load[i].data.range_factors :
                LET rf == low_load[i].data.range_factors[r]
                IN  /\ {"ge", "lt"} \subseteq DOMAIN rf.range
                    /\ \A k \in DOMAIN rf.factors : IsNumber(rf.factors[k])

\* offset_g_per_kwh (default 0) + g_per_kwh * multiplier (default 1)
emission_factor(pollutant_config, base_value_config) ==
    LET offset == IF "offset_g_per_kwh" \in DOMAIN pollutant_config
                  THEN pollutant_config["offset_g_per_kwh"] ELSE Num(0)
        multiplier == IF "multiplier" \in DOMAIN pollutant_config
                      THEN pollutant_config["multiplier"] ELSE Num(1)
    IN  Num(offset.n + base_value_config["g_per_kwh"].n * multiplier.n)

\* the index of the last rule that matches, 0 if none does
RECURSIVE last_matching(_, _, _)
last_matching(configs, values, i) ==
    IF i = 0 THEN 0
    ELSE IF MatchConfig_matches(configs[i], values) = "True" THEN i
    ELSE last_matching(configs, values, i - 1)

\* the pollutant rule the last match of which wins
pollutant_config_index_last(polls, pollutant, values) ==
    last_matching(polls[pollutant], values, Len(polls[pollutant]))

\* the index in polls[pollutant] of the rule next() yields, 0 on
\* StopIteration
pollutant_config_index(polls, pollutant, values) ==
    first_matching(polls[pollutant], values, 1)

\* the index of the base value rule next() yields for a pollutant rule
base_value_config_index(base, pollutant_config, values) ==
    first_matching(base[pollutant_config["base_value_name"].s], values, 1)

\* the mutant goes on to the next matching pollutant rule when the base
\* value of one has no matching rule
emission_factors_for_fallback(base, polls, vessel_info, engine_group) ==
    LET values == DictUnion(Dict1("engine_group", Str(engine_group)),
                            vessel_info)
        resolved(pollutant) ==
            {i \in DOMAIN polls[pollutant] :
                /\ MatchConfig_matches(polls[pollutant][i], values) = "True"
                /\ base_value_config_index(base, polls[pollutant][i].data,
                                           values) # 0}
    IN  [pollutant \in {q \in DOMAIN polls : resolved(q) # {}} |->
            LET i == CHOOSE i \in resolved(pollutant) :
                         \A j \in resolved(pollutant) : i <= j
                pollutant_config == polls[pollutant][i].data
                base_value_config ==
                    base[pollutant_config["base_value_name"].s][
                        base_value_config_index(base, pollutant_config,
                                                values)].data
            IN  emission_factor(pollutant_config, base_value_config)]

\* EmissionConfigs._emission_factors_for: a pollutant without a matching
\* pollutant rule or without a matching base value is left out
emission_factors_for(base, polls, vessel_info, engine_group) ==
    LET values == DictUnion(Dict1("engine_group", Str(engine_group)),
                            vessel_info)
        found == {pollutant \in DOMAIN polls :
                     LET i == pollutant_config_index(polls, pollutant, values)
                     IN  /\ i # 0
                         /\ base_value_config_index(
                                base, polls[pollutant][i].data, values) # 0}
    IN  [pollutant \in found |->
            LET pollutant_config ==
                    polls[pollutant][
                        pollutant_config_index(polls, pollutant, values)].data
                base_value_config ==
                    base[pollutant_config["base_value_name"].s][
                        base_value_config_index(base, pollutant_config,
                                                values)].data
            IN  emission_factor(pollutant_config, base_value_config)]

\* the mutant takes the rule the loop ends with when nothing breaks it
engine_powers_for_last(powers, vessel_info, engine_group, mode) ==
    powers[Len(powers)].data[mode]

\* EmissionConfigs._engine_powers_for: the first matching rule, after a
\* loop without a match the last rule
engine_powers_for(powers, vessel_info, engine_group, mode) ==
    LET values == DictUnion(Dict1("engine_group", Str(engine_group)),
                            vessel_info)
        i == first_matching(powers, values, 1)
    IN  IF i # 0 THEN powers[i].data[mode]
        ELSE powers[Len(powers)].data[mode]

\* EmissionConfigs._make_range_factors
make_range_factors(range_factors) ==
    [r \in DOMAIN range_factors |->
        [range |-> [ge |-> range_factors[r].range["ge"],
                    lt |-> range_factors[r].range["lt"]],
         factors |-> range_factors[r].factors]]

\* EmissionConfigs._low_load_adjustment_factors_for
low_load_adjustment_factors_for(low_load, vessel_info) ==
    LET i == first_matching(low_load, vessel_info, 1)
    IN  IF i = 0 THEN <<>>
        ELSE make_range_factors(low_load[i].data.range_factors)

\* EmissionConfigs.config_for: the fields of the EmissionConfig
config_for(base, polls, powers, low_load, vessel_info, mode) ==
    [emission_factors |->
        [e \in EMISSIONS_ENGINE_GROUPS |->
            emission_factors_for(base, polls, vessel_info, e)],
     engine_powers |->
        [e \in ENGINE_POWER_ENGINE_GROUPS |->
            engine_powers_for(powers, vessel_info, e, mode)],
     low_load_adjustment_factors |->
        low_load_adjustment_factors_for(low_load, vessel_info)]

-----------------------------------------------------------------------------
(* Positions, segments and tracks (src/poeminv/event.py).  Timestamps are  *)
(* seconds since the epoch, coordinates and bearings whole degrees, speeds *)
(* fractions.                                                              *)

\* Longitude(v), Latitude(v), Speed(v), Bearing(v): TRUE iff the constructor
\* returns the number, FALSE iff it raises ValueError
Longitude_valid(v) == 0 - 180 <= v /\ v < 180
Latitude_valid(v) == 0 - 90 <= v /\ v <= 90
Speed_valid(v) == ~RLt(v, RInt(0))
Bearing_valid(v) == 0 <= v /\ v < 360

\* math.cos(math.radians(deg)) for the multiples of 90 degrees
Cos(deg) ==
    CASE deg % 360 = 0 -> 1
      [] deg % 360 = 180 -> 0 - 1
      [] OTHER -> 0

\* math.sqrt of a square
ISqrt(n) == CHOOSE k \in 0..n : k * k = n
RSqrt(r) == Rat(ISqrt(r.n), ISqrt(r.d))

\* Position._speed_through_water
speed_through_water(sog, cog, tide_flow, tide_bearing) ==
    IF tide_flow = RInt(0) THEN sog
    ELSE RSqrt(RSub(RAdd(RMul(sog, sog), RMul(tide_flow, tide_flow)),
                    RMul(RInt(2 * Cos(cog - tide_bearing)),
                         RMul(sog, tide_flow))))

\* Position.__init__ without stw: TRUE iff no ValueError is raised
Position_init(lon, lat, sog, cog, heading, tide_flow, tide_bearing) ==
    /\ Longitude_valid(lon)
    /\ Latitude_valid(lat)
    /\ Speed_valid(sog)
    /\ Bearing_valid(cog)
    /\ Bearing_valid(heading)
    /\ Speed_valid(tide_flow)
    /\ Bearing_valid(tide_bearing)

\* the Position object: id tells objects with equal attributes apart, stw
\* is the memo _stw, <<>> for None
Position(id, ts, lon, lat, sog, cog, heading, tide_flow, tide_bearing) ==
    [id |-> id, ts |-> ts, lon |-> lon, lat |-> lat, sog |-> sog,
     cog |-> cog, heading |-> heading, tide_flow |-> tide_flow,
     tide_bearing |-> tide_bearing, stw |-> <<>>]

\* Position.stw, the value the property returns
Position_stw(pos) ==
    IF pos.stw = <<>>
    THEN speed_through_water(pos.sog, pos.cog, pos.tide_flow,
                             pos.tide_bearing)
    ELSE pos.stw[1]

\* the setter of Position.tide_flow: Speed(value) raises before anything is
\* assigned; the mutant keeps the memo of stw
Position_set_tide_flow_keeps_stw(pos, value) ==
    IF ~Speed_valid(value) THEN pos
    ELSE [pos EXCEPT !.tide_flow = value]

Position_set_tide_flow(pos, value) ==
    IF ~Speed_valid(value) THEN pos
    ELSE [pos EXCEPT !.tide_flow = value, !.stw = <<>>]

\* the setter of Position.tide_bearing
Position_set_tide_bearing(pos, value) ==
    IF ~Bearing_valid(value) THEN pos
    ELSE [pos EXCEPT !.tide_bearing = value, !.stw = <<>>]

\* the object after a read of Position.stw, which fills the memo
Position_after_stw(pos) == [pos EXCEPT !.stw = <<Position_stw(pos)>>]

\* Segment.__init__: TRUE iff no ValueError is raised
Segment_init(start, end) == ~(start.ts > end.ts)

\* the Segment object; distance is _distance, <<>> for None
Segment(start, end) == [start |-> start, end |-> end, distance |-> <<>>]

\* great_circle_distance between two points of the equator, in meters,
\* with the degree taken as 60 nautical miles of 1852 m (the source's
\* radius gives 111195 m)
great_circle_distance(lon1, lat1, lon2, lat2) == 111120 * Abs(lon2 - lon1)

\* Segment.distance
Segment_distance(segment) ==
    IF segment.distance = <<>>
    THEN great_circle_distance(segment.start.lon, segment.start.lat,
                               segment.end.lon, segment.end.lat)
    ELSE segment.distance[1]

\* Segment.duration.total_hours()
Segment_hours(segment) == Rat(segment.end.ts - segment.start.ts, 3600)

\* util.m_to_nm
m_to_nm(meters) == RDiv(meters, RInt(1852))

EmptyTrack == [positions |-> <<>>, segments |-> <<>>]

\* Track.append_position: the track after the call and "ok" or the
\* exception that escapes.  The position is appended before the segment is
\* built; only the IndexError of a track without a last position is caught.
append_position(track, ts, lon, lat, sog, cog, heading, tide_flow, tide_bearing) ==
    IF ~Position_init(lon, lat, sog, cog, heading, tide_flow, tide_bearing)
    THEN [track |-> track, result |-> "ValueError"]
    ELSE LET pos == Position(Len(track.positions) + 1, ts, lon, lat, sog,
                             cog, heading, tide_flow, tide_bearing)
             positions == Append(track.positions, pos)
         IN  IF Len(positions) < 2
             THEN [track |-> [positions |-> positions,
                              segments |-> track.segments],
                   result |-> "ok"]
             ELSE IF ~Segment_init(positions[Len(positions) - 1], pos)
             THEN [track |-> [positions |-> positions,
                              segments |-> track.segments],
                   result |-> "ValueError"]
             ELSE [track |-> [positions |-> positions,
                              segments |->
                                 Append(track.segments,
                                        Segment(positions[Len(positions) - 1],
                                                pos))],
                   result |-> "ok"]

\* Track.duration.total_hours(): the sum of the segments' durations
RECURSIVE Track_hours(_)
Track_hours(segments) ==
    IF segments = <<>> THEN RInt(0)
    ELSE RAdd(Segment_hours(Head(segments)), Track_hours(Tail(segments)))

-----------------------------------------------------------------------------
(* Track.partial_track (src/port_emission_inventory/track.py), whose Track, *)
(* Position, Segment and append_position are those modelled above.          *)

\* a bound of a slice of a list of n elements, as Python normalises it
slice_bound(i, n) ==
    IF i < 0 THEN (IF i + n < 0 THEN 0 ELSE i + n)
    ELSE IF i > n THEN n ELSE i

\* list[start:stop]
slice(list, start, stop) ==
    SubSeq(list, slice_bound(start, Len(list)) + 1,
           slice_bound(stop, Len(list)))

\* track.partial_track(start_ts, end_ts): the track returned, whether it is
\* track itself, and "" or the exception raised
partial_track(track, start_ts, end_ts) ==
    LET from_start == {i \in DOMAIN track.positions :
                          track.positions[i].ts >= start_ts}
        start_idx == (CHOOSE i \in from_start :
                         \A j \in from_start : i <= j) - 1
        UpToEnd(p) == p.ts <= end_ts
        positions == SelectSeq(slice(track.positions, start_idx,
                                     Len(track.positions)), UpToEnd)
        segments == slice(track.segments, start_idx,
                          start_idx + Len(positions) - 1)
    IN  IF start_ts > end_ts
        THEN [track |-> EmptyTrack, is_self |-> FALSE,
              error |-> "ValueError"]
        ELSE IF from_start = {}
        THEN [track |-> EmptyTrack, is_self |-> FALSE, error |-> ""]
        ELSE IF /\ start_ts = track.positions[1].ts
                /\ end_ts = track.positions[Len(track.positions)].ts
        THEN [track |-> track, is_self |-> TRUE, error |-> ""]
        ELSE [track |-> [positions |-> positions, segments |-> segments],
              is_self |-> FALSE, error |-> ""]

-----------------------------------------------------------------------------
(* surrounding_context_iter (src/poeminv/event.py).  A generator is the    *)
(* record [consumed, past, future, pc, current]; current is the element     *)
(* last popped from future.                                                 *)

\* the mutant is a deque without maxlen
deque_append_unbounded(deque, element, maxlen) == Append(deque, element)

\* collections.deque(maxlen=maxlen).append
deque_append(deque, element, maxlen) ==
    IF maxlen = 0 THEN <<>>
    ELSE IF Len(deque) = maxlen THEN Append(Tail(deque), element)
    ELSE Append(deque, element)

\* current = future.popleft(), at the yield of a loop
context_iter_yield(gen, loop) ==
    [gen EXCEPT !.current = <<Head(gen.future)>>, !.future = Tail(gen.future),
                !.pc = loop]

\* the while loop from its test on, up to its yield or the end
context_iter_while(gen) ==
    IF gen.future # <<>> THEN context_iter_yield(gen, "while")
    ELSE [gen EXCEPT !.pc = "done"]

RECURSIVE context_iter_for(_, _, _)
\* the for loop from taking the next element on, up to its yield; the while
\* loop when the iterable is exhausted
context_iter_for(gen, iterable, future_size) ==
    IF gen.consumed = Len(iterable) THEN context_iter_while(gen)
    ELSE LET taken == [gen EXCEPT !.consumed = gen.consumed + 1]
         IN  IF Len(gen.future) = future_size + 1
             THEN context_iter_yield(taken, "for")
             ELSE context_iter_for(
                      [taken EXCEPT
                          !.future = deque_append(
                                         gen.future,
                                         iterable[gen.consumed + 1],
                                         future_size + 1)],
                      iterable, future_size)

\* next() of the generator: from the start or from the yield it is
\* suspended at to the next yield or the end
context_iter_next(gen, iterable, past_size, future_size) ==
    CASE gen.pc = "start" -> context_iter_for(gen, iterable, future_size)
      [] gen.pc = "for" ->
            context_iter_for(
                [gen EXCEPT
                    !.past = deque_append(gen.past, gen.current[1],
                                          past_size),
                    !.future = deque_append(gen.future,
                                            iterable[gen.consumed],
                                            future_size + 1)],
                iterable, future_size)
      [] gen.pc = "while" ->
            context_iter_while(
                [gen EXCEPT !.past = deque_append(gen.past, gen.current[1],
                                                  past_size)])
      [] OTHER -> gen

-----------------------------------------------------------------------------
(* Track.sanitized_from_positions.  A position dict is a dictionary of     *)
(* values; ts, lon and lat are numbers.                                    *)

MAX_CALCULATED_SPEED == 16

RECURSIVE SumOf(_, _)
\* sum(p[key] for p in dicts)
SumOf(dicts, key) ==
    IF dicts = <<>> THEN 0
    ELSE Head(dicts)[key].n + SumOf(Tail(dicts), key)

\* the predicates a caller passes: always_true, or a bound on the sog, or a
\* bound on the distance in longitude
sog_is_plausible(kind, sog) ==
    IF kind = "always_true" THEN TRUE ELSE RLt(sog, RInt(10))
distance_covered_is_plausible(kind, ts1, lon1, lat1, ts2, lon2, lat2) ==
    IF kind = "always_true" THEN TRUE
    ELSE /\ RLt(RSub(lon2, lon1), RInt(2))
         /\ RLt(RSub(lon1, lon2), RInt(2))

\* the mutant compares with the last past position only
position_is_outlier_last(current, past, kind) ==
    IF past = <<>> THEN FALSE
    ELSE ~distance_covered_is_plausible(
              kind, RInt(past[Len(past)]["ts"].n),
              RInt(past[Len(past)]["lon"].n), RInt(past[Len(past)]["lat"].n),
              RInt(current["ts"].n), RInt(current["lon"].n),
              RInt(current["lat"].n))

\* Track._position_is_outlier
position_is_outlier(current, past, kind) ==
    IF past = <<>> THEN FALSE
    ELSE ~distance_covered_is_plausible(
              kind, Rat(SumOf(past, "ts"), Len(past)),
              Rat(SumOf(past, "lon"), Len(past)),
              Rat(SumOf(past, "lat"), Len(past)),
              RInt(current["ts"].n), RInt(current["lon"].n),
              RInt(current["lat"].n))

\* the pairs (past[-1], current) and (current, future[0]) that exist
pos_pairs(current, past, future) ==
    (IF past = <<>> THEN <<>> ELSE <<<<past[Len(past)], current>>>>)
      \o (IF future = <<>> THEN <<>> ELSE <<<<current, future[1]>>>>)

\* the speed of a pair in knots, 0 where the division by zero hours is
\* caught
pair_speed(left, right) ==
    IF right["ts"].n = left["ts"].n THEN RInt(0)
    ELSE m_to_nm(RDiv(RInt(great_circle_distance(
                               left["lon"].n, left["lat"].n,
                               right["lon"].n, right["lat"].n)),
                      Rat(right["ts"].n - left["ts"].n, 3600)))

\* the mutant divides by the number of pairs that are some time apart
calculate_sog_of_timed_pairs(current, past, future) ==
    LET pairs == pos_pairs(current, past, future)
        timed == {i \in DOMAIN pairs :
                     pairs[i][1]["ts"].n # pairs[i][2]["ts"].n}
    IN  IF timed = {} THEN RInt(0)
        ELSE LET acc == IF Len(pairs) = 1
                        THEN pair_speed(pairs[1][1], pairs[1][2])
                        ELSE RAdd(pair_speed(pairs[1][1], pairs[1][2]),
                                  pair_speed(pairs[2][1], pairs[2][2]))
             IN  RMin(RDiv(acc, RInt(Cardinality(timed))),
                      RInt(MAX_CALCULATED_SPEED))

\* Track._calculate_sog
calculate_sog(current, past, future) ==
    LET pairs == pos_pairs(current, past, future)
    IN  IF pairs = <<>> THEN RInt(0)
        ELSE LET acc == IF Len(pairs) = 1
                        THEN pair_speed(pairs[1][1], pairs[1][2])
                        ELSE RAdd(pair_speed(pairs[1][1], pairs[1][2]),
                                  pair_speed(pairs[2][1], pairs[2][2]))
             IN  RMin(RDiv(acc, RInt(Len(pairs))),
                      RInt(MAX_CALCULATED_SPEED))

\* bearing() between two points of the equator:
\* (degrees(atan2(lon2 - lon1, 0)) + 360) % 360
bearing(lon1, lat1, lon2, lat2) ==
    CASE lon2 > lon1 -> 90
      [] lon2 < lon1 -> 270
      [] OTHER -> 0

\* average_bearing of two multiples of 90
average_bearing(b1, b2) ==
    LET c1 == IF Abs(b1 - b2) > 180 /\ b1 < b2 THEN b1 + 360 ELSE b1
        c2 == IF Abs(b1 - b2) > 180 /\ ~(b1 < b2) THEN b2 + 360 ELSE b2
    IN  ((c1 + c2) \div 2) % 360

\* Track._calculate_cog
calculate_cog(current, past, future) ==
    LET pairs == pos_pairs(current, past, future)
        cog(i) == bearing(pairs[i][1]["lon"].n, pairs[i][1]["lat"].n,
                          pairs[i][2]["lon"].n, pairs[i][2]["lat"].n)
    IN  IF pairs = <<>> THEN 0
        ELSE IF Len(pairs) = 1 THEN cog(1)
        ELSE average_bearing(cog(1), cog(2))

\* the tide of a position dict: (0, 0) if a key is missing or a value is
\* None or invalid
tide_of(current) ==
    LET tide_flow == Get(current, "tide_flow")
        tide_bearing == Get(current, "tide_bearing")
    IN  IF /\ {"tide_flow", "tide_bearing"} \subseteq DOMAIN current
           /\ IsNumber(tide_flow) /\ IsNumber(tide_bearing)
           /\ tide_flow.n >= 0
           /\ 0 <= tide_bearing.n /\ tide_bearing.n < 360
        THEN <<tide_flow.n, tide_bearing.n>>
        ELSE <<0, 0>>

\* the sog handed to append_position; the mutant recalculates a sog of 0
sanitized_sog_falsy(current, past, future, kind) ==
    IF \/ current["sog"].t = "none" \/ current["sog"].n = 0
       \/ ~sog_is_plausible(kind, RInt(current["sog"].n))
    THEN calculate_sog(current, past, future)
    ELSE RInt(current["sog"].n)

sanitized_sog(current, past, future, kind) ==
    IF \/ current["sog"].t = "none"
       \/ ~sog_is_plausible(kind, RInt(current["sog"].n))
    THEN calculate_sog(current, past, future)
    ELSE RInt(current["sog"].n)

sanitized_cog(current, past, future) ==
    IF current["cog"].t = "none" THEN calculate_cog(current, past, future)
    ELSE current["cog"].n

\* the elements surrounding_context_iter(dicts, 3, 1) yields with dicts[i]
past_of(dicts, i) == SubSeq(dicts, IF i > 3 THEN i - 3 ELSE 1, i - 1)
future_of(dicts, i) == SubSeq(dicts, i + 1, IF i < Len(dicts) THEN i + 1 ELSE i)

RECURSIVE sanitized_from(_, _, _, _, _)
\* the loop of sanitized_from_positions from dicts[i] on: the track built
\* and "ok", or the exception that escapes append_position
sanitized_from(dicts, i, track, sog_kind, distance_kind) ==
    IF i > Len(dicts) THEN [track |-> track, result |-> "ok"]
    ELSE LET current == dicts[i]
             past == past_of(dicts, i)
             future == future_of(dicts, i)
         IN  IF position_is_outlier(current, past, distance_kind)
             THEN sanitized_from(dicts, i + 1, track, sog_kind,
                                 distance_kind)
             ELSE LET cog == sanitized_cog(current, past, future)
                      heading == IF current["heading"].t = "none" THEN cog
                                 ELSE current["heading"].n
                      r == append_position(
                               track, current["ts"].n, current["lon"].n,
                               current["lat"].n,
                               sanitized_sog(current, past, future, sog_kind),
                               cog, heading, RInt(tide_of(current)[1]),
                               tide_of(current)[2])
                  IN  IF r.result # "ok" THEN r
                      ELSE sanitized_from(dicts, i + 1, r.track, sog_kind,
                                          distance_kind)

\* Track.sanitized_from_positions
sanitized_from_positions(dicts, sog_kind, distance_kind) ==
    sanitized_from(dicts, 1, EmptyTrack, sog_kind, distance_kind)

-----------------------------------------------------------------------------
(* SegmentDurationSanitizer (src/poeminv/emission.py) *)

\* the adjustment factor before the cap
adjustment_factor(deviation, segment) ==
    LET segment_hours == Segment_hours(segment)
        average_sog == RDiv(RAdd(segment.start.sog, segment.end.sog), RInt(2))
        assumed_distance == RMul(segment_hours, average_sog)
        actual_distance == m_to_nm(RInt(Segment_distance(segment)))
        min_distance == RMul(actual_distance, RSub(RInt(1), deviation))
        max_distance == RMul(actual_distance, RAdd(RInt(1), deviation))
    IN  IF assumed_distance = RInt(0) THEN RInt(1)
        ELSE IF RLt(assumed_distance, min_distance)
        THEN RDiv(min_distance, assumed_distance)
        ELSE IF RLt(max_distance, assumed_distance)
        THEN RDiv(max_distance, assumed_distance)
        ELSE RInt(1)

\* the mutant caps an increase only
adjusted_segment_hours_caps_increase(deviation, max_increase, segment) ==
    LET f == adjustment_factor(deviation, segment)
    IN  RMul(Segment_hours(segment),
             IF RLt(RInt(1), f) THEN RMin(f, max_increase) ELSE f)

\* SegmentDurationSanitizer.adjusted_segment_hours
adjusted_segment_hours(deviation, max_increase, segment) ==
    RMul(Segment_hours(segment),
         RMin(adjustment_factor(deviation, segment), max_increase))

-----------------------------------------------------------------------------
(* OpDict (src/poeminv/util.py), EmissionConfig (src/poeminv/config.py)    *)
(* and EmissionCalculator (src/poeminv/emission.py).  An emission map is   *)
(* a dictionary from pollutants to grams; an EmissionConfig is the record  *)
(* config_for returns.                                                     *)

EmptyOpDict == [k \in {} |-> RInt(0)]

\* the mutant adds the keys both maps have
OpDict_add_common_keys(a, b) ==
    [k \in DOMAIN a \cap DOMAIN b |-> RAdd(a[k], b[k])]

\* OpDict.__add__
OpDict_add(a, b) ==
    [k \in DOMAIN a \cup DOMAIN b |->
        RAdd(IF k \in DOMAIN a THEN a[k] ELSE RInt(0),
             IF k \in DOMAIN b THEN b[k] ELSE RInt(0))]

\* OpDict.__mul__ with a dictionary of numbers
OpDict_mul(a, b) ==
    [k \in DOMAIN a |->
        IF k \in DOMAIN b THEN RMul(a[k], RInt(b[k].n)) ELSE a[k]]

\* EmissionConfig.engine_power for 'auxiliary' and 'boiler'
engine_power(emission_config, engine_group) ==
    RInt(emission_config.engine_powers[engine_group].n)

\* EmissionConfig.emissions_from_energy for a valid engine group
emissions_from_energy(emission_config, engine_group, kwh) ==
    [pollutant \in DOMAIN emission_config.emission_factors[engine_group] |->
        RMul(kwh, RInt(emission_config.emission_factors[engine_group][
                           pollutant].n))]

\* the mode checks of the calculator: TRUE iff no ValueError is raised; the
\* mutant takes every mode
track_mode_valid_any(mode) == mode \in Mode
track_mode_valid(mode) == mode \in {"transit", "maneuvering"}
mooring_mode_valid(mode) == mode \in {"hotelling", "anchorage"}

\* EmissionCalculator.propulsion_load_at_stw; the mutant does not cap
propulsion_load_at_stw_uncapped(stw, max_speed, sea_margin) ==
    LET fraction_of_max_speed == RDiv(stw, max_speed)
    IN  RMul(RMul(fraction_of_max_speed,
                  RMul(fraction_of_max_speed, fraction_of_max_speed)),
             sea_margin)

propulsion_load_at_stw(stw, max_speed, sea_margin) ==
    LET fraction_of_max_speed == RDiv(stw, max_speed)
        load == RMul(RMul(fraction_of_max_speed,
                          RMul(fraction_of_max_speed, fraction_of_max_speed)),
                     sea_margin)
    IN  RMin(load, RInt(1))

\* EmissionCalculator._segment_load
segment_load(segment, max_speed, sea_margin) ==
    RDiv(RAdd(propulsion_load_at_stw(Position_stw(segment.start), max_speed,
                                     sea_margin),
              propulsion_load_at_stw(Position_stw(segment.end), max_speed,
                                     sea_margin)),
         RInt(2))

RECURSIVE adjusted_emissions_from_every(_, _, _, _)
\* the mutant applies the factors of every range that contains the load
adjusted_emissions_from_every(base_emissions, load, range_factors, i) ==
    IF i > Len(range_factors) THEN base_emissions
    ELSE IF /\ RLe(RInt(range_factors[i].range.ge.n), load)
            /\ RLt(load, RInt(range_factors[i].range.lt.n))
    THEN adjusted_emissions_from_every(
             OpDict_mul(base_emissions, range_factors[i].factors), load,
             range_factors, i + 1)
    ELSE adjusted_emissions_from_every(base_emissions, load, range_factors,
                                       i + 1)

RECURSIVE adjusted_emissions_from(_, _, _, _)
\* EmissionCalculator._adjusted_emissions: the factors of the first range
\* from index i on that contains the load
adjusted_emissions_from(base_emissions, load, range_factors, i) ==
    IF i > Len(range_factors) THEN base_emissions
    ELSE IF /\ RLe(RInt(range_factors[i].range.ge.n), load)
            /\ RLt(load, RInt(range_factors[i].range.lt.n))
    THEN OpDict_mul(base_emissions, range_factors[i].factors)
    ELSE adjusted_emissions_from(base_emissions, load, range_factors, i + 1)

adjusted_emissions(base_emissions, load, emission_config) ==
    adjusted_emissions_from(base_emissions, load,
                            emission_config.low_load_adjustment_factors, 1)

\* EmissionCalculator.segment_propulsion_emissions; calc is the calculator:
\* [vessel_info, sea_margin, deviation, max_increase]
segment_propulsion_emissions(calc, segment, emission_config) ==
    LET segment_hours == adjusted_segment_hours(calc.deviation,
                                                calc.max_increase, segment)
        load == segment_load(segment, RInt(calc.vessel_info["max_speed"].n),
                             calc.sea_margin)
        kwh == RMul(RMul(RInt(calc.vessel_info["engine_kw"].n),
                         segment_hours), load)
    IN  adjusted_emissions(
            emissions_from_energy(emission_config, "propulsion", kwh),
            load, emission_config)

RECURSIVE propulsion_emissions(_, _, _)
\* EmissionCalculator._propulsion_emissions: sum(..., start=OpDict()) over
\* the segments
propulsion_emissions(calc, segments, emission_config) ==
    IF segments = <<>> THEN EmptyOpDict
    ELSE OpDict_add(
             propulsion_emissions(calc, SubSeq(segments, 1,
                                               Len(segments) - 1),
                                  emission_config),
             segment_propulsion_emissions(calc, segments[Len(segments)],
                                          emission_config))

\* EmissionCalculator._non_propulsion_emissions
non_propulsion_emissions(hours, emission_config, engine_group) ==
    emissions_from_energy(emission_config, engine_group,
                          RMul(engine_power(emission_config, engine_group),
                               hours))

\* EmissionCalculator.calculate_track_emissions for a valid mode
calculate_track_emissions(calc, trk, emission_config) ==
    OpDict_add(
        OpDict_add(propulsion_emissions(calc, trk.segments, emission_config),
                   non_propulsion_emissions(Track_hours(trk.segments),
                                            emission_config, "auxiliary")),
        non_propulsion_emissions(Track_hours(trk.segments), emission_config,
                                 "boiler"))

\* EmissionCalculator.calculate_mooring_emissions for a valid mode
calculate_mooring_emissions(hours, emission_config) ==
    OpDict_add(
        OpDict_add(EmptyOpDict,
                   non_propulsion_emissions(hours, emission_config,
                                            "auxiliary")),
        non_propulsion_emissions(hours, emission_config, "boiler"))

-----------------------------------------------------------------------------
(* Criteria and match configs under test *)

MaxNum == 2
MaxSubCriteria == 2

MatchNames == {"length", "ais_type"}
MatchValues == {None, Str("x")} \cup {Num(n) : n \in 0..MaxNum}

\* the keyword arguments of a matches() call
ValueBags == UNION {[D -> MatchValues] : D \in SUBSET MatchNames}

LeafCriteria(name) ==
    {c \in {EqualsCriterion(name, v) : v \in MatchValues}
           \cup {RangeCriterion(name, Num(ge), Num(lt)) :
                    ge \in 0..MaxNum, lt \in 0..MaxNum} : Constructible(c)}

SeqsUpTo(S, n) == UNION {[1..k -> S] : k \in 0..n}

\* disjunctions of leaves and of the empty disjunction
Disjunctions(name) ==
    {DisjunctionCriterion(name, cs) :
        cs \in SeqsUpTo(LeafCriteria(name)
                          \cup {DisjunctionCriterion(name, <<>>)},
                        MaxSubCriteria)}

TestCriteria ==
    UNION {LeafCriteria(name) \cup Disjunctions(name) : name \in MatchNames}

\* the criteria a MatchConfig under test has for a name
ConfigCriteria(name) ==
    LeafCriteria(name)
      \cup {DisjunctionCriterion(name, cs) :
               cs \in SeqsUpTo(LeafCriteria(name), 1)}

\* criteria dicts: at most one criterion per name, in either order
TestCriteriaDicts ==
    {<<>>}
      \cup {<<c>> : c \in ConfigCriteria("length") \cup ConfigCriteria("ais_type")}
      \cup {<<c, d>> : c \in ConfigCriteria("length"),
                       d \in ConfigCriteria("ais_type")}
      \cup {<<d, c>> : c \in ConfigCriteria("length"),
                       d \in ConfigCriteria("ais_type")}

NoCriterion == DisjunctionCriterion("", <<>>)

MatchIdle ==
    /\ m_op = "none"
    /\ m_criterion = NoCriterion
    /\ m_criteria = <<>>
    /\ m_values = EmptyDict
    /\ m_result = ""

\* criterion.matches(**values)
CallCriterionMatches ==
    /\ m_op = "none"
    /\ \E c \in TestCriteria, values \in ValueBags :
          /\ m_criterion' = c
          /\ m_values' = values
          /\ m_result' = Criterion_matches(c, values)
    /\ m_op' = "criterion"
    /\ UNCHANGED m_criteria

\* MatchConfig(...).matches(**values)
CallMatchConfigMatches ==
    /\ m_op = "none"
    /\ \E criteria \in TestCriteriaDicts, values \in ValueBags :
          /\ m_criteria' = criteria
          /\ m_values' = values
          /\ m_result' = MatchConfig_matches(
                             MatchConfig(criteria, EmptyDict), values)
    /\ m_op' = "match_config"
    /\ UNCHANGED m_criterion

\* the call is over
MatchReturn ==
    /\ m_op # "none"
    /\ m_op' = "none"
    /\ m_criterion' = NoCriterion
    /\ m_criteria' = <<>>
    /\ m_values' = EmptyDict
    /\ m_result' = ""

-----------------------------------------------------------------------------
(* The guesser under test: its rules and the inputs of its calls *)

MaxExtraRules == 2
MaxSupplied == 2

ShipTypeData(ship_type, size, size_unit) ==
    [k \in type_and_size |->
        CASE k = "ship_type" -> Str(ship_type)
          [] k = "size" -> Num(size)
          [] OTHER -> Str(size_unit)]

\* a criteria-less rule with all eight fields
R_DEF ==
    MatchConfig(<<>>,
        [k \in FIELD_NAMES |->
            CASE k = "max_speed" -> Num(10)
              [] k = "engine_kw" -> Num(100)
              [] k = "engine_rpm" -> Num(500)
              [] k = "engine_category" -> Str("c3")
              [] k = "engine_nox_tier" -> Num(0)
              [] k = "ship_type" -> Str("misc")
              [] k = "size" -> Num(0)
              [] OTHER -> Str("n/a")])
\* rules keyed on the ship type that carry its size
R_M == MatchConfig(<<EqualsCriterion("ship_type", Str("misc"))>>,
                   ShipTypeData("misc", 0, "n/a"))
R_B == MatchConfig(<<EqualsCriterion("ship_type", Str("bulk_carrier"))>>,
                   ShipTypeData("bulk_carrier", 1000, "dwt"))
R_O == MatchConfig(<<EqualsCriterion("ship_type", Str("oil_tanker"))>>,
                   DictUnion(ShipTypeData("oil_tanker", 5000, "dwt"),
                             Dict1("engine_kw", Num(2000))))
\* a rule keyed on every ship type that carries the size of one of them
R_ANY ==
    MatchConfig(
        <<DisjunctionCriterion("ship_type",
            <<EqualsCriterion("ship_type", Str("misc")),
              EqualsCriterion("ship_type", Str("bulk_carrier")),
              EqualsCriterion("ship_type", Str("oil_tanker"))>>)>>,
        ShipTypeData("misc", 0, "n/a"))
\* a rule that guesses the ship type from the length
R_LEN == MatchConfig(<<RangeCriterion("length", Num(100), Num(300))>>,
                     DictUnion(ShipTypeData("oil_tanker", 4000, "dwt"),
                               Dict1("engine_rpm", Num(120))))
\* a rule that gives the NOx tier of a keel laid year
R_KLY == MatchConfig(<<EqualsCriterion("keel_laid_year", Num(2002))>>,
                     Dict1("engine_nox_tier", Num(2)))
\* a rule that gives the NOx tier and the size of the oil tankers of a keel
\* laid year
R_KLYO == MatchConfig(<<EqualsCriterion("keel_laid_year", Num(2002))>>,
                      DictUnion(ShipTypeData("oil_tanker", 6000, "dwt"),
                                Dict1("engine_nox_tier", Num(2))))
\* a criteria-less rule with the engine power only
R_KW == MatchConfig(<<>>, Dict1("engine_kw", Num(1000)))

ExtraRules == {R_LEN, R_KLY, R_KLYO, R_KW, R_B, R_O}
RequiredRules == {<<R_ANY, R_DEF>>, <<R_DEF, R_ANY>>,
                  <<R_B, R_O, R_M, R_DEF>>}

B_DEF == MatchConfig(<<>>, Dict1("build_time_years", Num(4)))
B_O == MatchConfig(<<EqualsCriterion("ship_type", Str("oil_tanker"))>>,
                   Dict1("build_time_years", Num(3)))
BuildTimeConfigs == {<<B_DEF>>, <<B_O, B_DEF>>, <<B_DEF, B_O>>}

DistinctSeqsUpTo(S, n) ==
    {q \in SeqsUpTo(S, n) : \A i, j \in DOMAIN q : i # j => q[i] # q[j]}

\* rule lists: some extra rules followed by the rules validation requires
GuessConfigs ==
    {extra \o required :
        extra \in DistinctSeqsUpTo(ExtraRules, MaxExtraRules),
        required \in RequiredRules}

\* the values a caller may supply under a name
InputValues ==
    [k \in {"ship_type", "size", "size_unit", "engine_category",
            "engine_nox_tier", "engine_kw", "keel_laid_year",
            "year_of_build", "length"} |->
        CASE k = "ship_type" ->
                {None, Str("bulk_carrier"), Str("oil_tanker")}
          [] k = "size" -> {Num(0), Num(7)}
          [] k = "size_unit" -> {Str("dwt")}
          [] k = "engine_category" -> {Str("c1"), Str("c3")}
          [] k = "engine_nox_tier" -> {None, Num(1)}
          [] k = "engine_kw" -> {Num(50)}
          [] k = "keel_laid_year" -> {None, Num(2002)}
          [] k = "year_of_build" -> {None, Num(2005)}
          [] OTHER -> {Num(200)}]

\* all eight fields supplied
CompleteInputs ==
    {[k \in FIELD_NAMES |->
        CASE k = "max_speed" -> Num(5)
          [] k = "engine_kw" -> Num(50)
          [] k = "engine_rpm" -> Num(90)
          [] k = "engine_category" -> Str(cat)
          [] k = "engine_nox_tier" -> Num(1)
          [] k = "ship_type" -> Str(st)
          [] k = "size" -> Num(size)
          [] OTHER -> Str("dwt")] :
        cat \in {"c1", "c3"}, st \in {"bulk_carrier", "oil_tanker"},
        size \in {0, 7}}

\* the inputs of the second pass, with one more name that is absent,
\* supplied as None or supplied with a value
NoneInputs ==
    {DictUnion(DictUnion(Dict1("year_of_build", Num(2005)), known), more) :
        known \in {Dict1("length", Num(200)),
                   Dict1("ship_type", Str("oil_tanker"))},
        more \in {EmptyDict, Dict1("engine_nox_tier", None),
                  Dict1("engine_nox_tier", Num(1)),
                  Dict1("keel_laid_year", None),
                  Dict1("engine_category", None)}}

GuessInputs ==
    CompleteInputs
      \cup NoneInputs
      \cup UNION {{v \in [D -> UNION {InputValues[k] : k \in D}] :
                      \A k \in D : v[k] \in InputValues[k]} :
                  D \in {E \in SUBSET DOMAIN InputValues :
                            Cardinality(E) <= MaxSupplied}}

GuessIdle ==
    /\ g_pc = "idle"
    /\ g_input = EmptyDict
    /\ g_values = EmptyDict
    /\ g_attrs = EmptyDict
    /\ g_i = 0
    /\ g_kly = None
    /\ g_error = ""
    /\ g_src = <<>>
    /\ g_hits = {}
    /\ g_attrs1 = EmptyDict

GuessUnused ==
    /\ guess_data = <<>>
    /\ average_vessel_build_times = <<>>
    /\ GuessIdle

g_config == <<guess_data, average_vessel_build_times>>

\* the state after the for loop of _guess_missing_attrs ended in a pass
AfterPass(pc) == IF pc = "pass1" THEN "pass1_done" ELSE "done"

\* guess_missing_vessel_info(**values) up to the first pass
GuessCall ==
    /\ g_pc = "idle"
    /\ \E values \in GuessInputs :
          /\ g_input' = values
          /\ g_values' = values
          /\ IF size_without_ship_type(values)
             THEN /\ g_pc' = "raised"
                  /\ g_error' = "ValueError"
                  /\ g_attrs' = EmptyDict
                  /\ g_src' = <<>>
             ELSE LET attrs == seed_attrs(values)
                  IN  /\ g_attrs' = attrs
                      /\ g_src' = [k \in DOMAIN attrs |-> 0]
                      /\ g_pc' = IF guess_data = <<>> THEN "pass1_done"
                                 ELSE "pass1"
                      /\ g_error' = ""
    /\ g_i' = 1
    /\ g_hits' = {}
    /\ UNCHANGED <<g_config, g_kly, g_attrs1>>

\* one iteration of the loop of _guess_missing_attrs, in either pass
GuessRule ==
    /\ g_pc \in {"pass1", "pass2"}
    /\ LET match_config == guess_data[g_i]
           context == IF g_pc = "pass1" THEN g_values
                      ELSE DictUnion(g_values,
                                     Dict1("keel_laid_year", g_kly))
           hit == MatchConfig_matches(match_config,
                                      DictUnion(context, g_attrs)) = "True"
           attrs == IF hit
                    THEN attrs_with_extra_data(g_attrs, match_config.data)
                    ELSE g_attrs
           ended == Cardinality(DOMAIN attrs) = Cardinality(FIELD_NAMES)
                       \/ g_i = Len(guess_data)
       IN  /\ g_attrs' = attrs
           /\ g_src' = [k \in DOMAIN attrs |->
                          IF k \in DOMAIN g_attrs THEN g_src[k] ELSE g_i]
           /\ g_hits' = IF hit THEN g_hits \cup {g_i} ELSE g_hits
           /\ g_i' = g_i + 1
           /\ g_pc' = IF ended THEN AfterPass(g_pc) ELSE g_pc
           /\ g_attrs1' = IF ended /\ g_pc = "pass1" THEN attrs ELSE g_attrs1
    /\ UNCHANGED <<g_config, g_input, g_values, g_kly, g_error>>

\* the end of guess_missing_vessel_info after the first pass:
\* _maybe_improve_nox_tier_guess up to its call of _guess_missing_attrs
GuessMaybeImprove ==
    /\ g_pc = "pass1_done"
    /\ IF "engine_nox_tier" \in DOMAIN g_values
       THEN /\ g_pc' = "done"
            /\ UNCHANGED <<g_values, g_attrs, g_kly, g_error, g_src, g_i,
                           g_hits>>
       ELSE IF "engine_category" \notin DOMAIN g_attrs
       THEN /\ g_pc' = "raised"
            /\ g_error' = "KeyError"
            /\ UNCHANGED <<g_values, g_attrs, g_kly, g_src, g_i, g_hits>>
       ELSE IF g_attrs["engine_category"] # Str("c3")
       THEN /\ g_pc' = "done"
            /\ UNCHANGED <<g_values, g_attrs, g_kly, g_error, g_src, g_i,
                           g_hits>>
       ELSE LET popped == Get(g_values, "keel_laid_year")
                values == DictWithout(g_values, "keel_laid_year")
                attrs == DictWithout(g_attrs, "engine_nox_tier")
                build_time ==
                    find_average_build_time(average_vessel_build_times,
                                            DictUnion(values, attrs))
            IN  /\ g_values' = values
                /\ IF ~improve_nox_tier_guess(g_attrs, values, popped)
                   THEN /\ g_pc' = "done"
                        /\ UNCHANGED <<g_attrs, g_kly, g_error, g_src, g_i,
                                       g_hits>>
                   ELSE IF "engine_nox_tier" \notin DOMAIN g_attrs
                   THEN /\ g_pc' = "raised"
                        /\ g_error' = "KeyError"
                        /\ UNCHANGED <<g_attrs, g_kly, g_src, g_i, g_hits>>
                   ELSE IF build_time = None
                   THEN /\ g_pc' = "raised"
                        /\ g_error' = "StopIteration"
                        /\ g_attrs' = attrs
                        /\ g_src' = [k \in DOMAIN attrs |-> g_src[k]]
                        /\ UNCHANGED <<g_kly, g_i, g_hits>>
                   ELSE /\ g_pc' = IF guess_data = <<>> THEN "done"
                                   ELSE "pass2"
                        /\ g_kly' = Num(values["year_of_build"].n
                                          - build_time.n)
                        /\ g_attrs' = attrs
                        /\ g_src' = [k \in DOMAIN attrs |-> g_src[k]]
                        /\ g_i' = 1
                        /\ g_hits' = {}
                        /\ UNCHANGED g_error
    /\ UNCHANGED <<g_config, g_input, g_attrs1>>

\* the call returned or raised: the guesser is ready for the next call
GuessReturn ==
    /\ g_pc \in {"done", "raised"}
    /\ g_pc' = "idle"
    /\ g_input' = EmptyDict
    /\ g_values' = EmptyDict
    /\ g_attrs' = EmptyDict
    /\ g_i' = 0
    /\ g_kly' = None
    /\ g_error' = ""
    /\ g_src' = <<>>
    /\ g_hits' = {}
    /\ g_attrs1' = EmptyDict
    /\ UNCHANGED g_config

-----------------------------------------------------------------------------
(* The emission configs under test: their rules and the vessels *)

MaxBaseRules == 2
MaxPollutantRules == 2

BaseValue(criteria, g_per_kwh) ==
    MatchConfig(criteria, Dict1("g_per_kwh", Num(g_per_kwh)))

BaseValueRules ==
    {BaseValue(<<EqualsCriterion("engine_group", Str("propulsion"))>>, 2),
     BaseValue(<<RangeCriterion("engine_rpm", Num(0), Num(1500))>>, 3),
     BaseValue(<<EqualsCriterion("engine_group", Str("auxiliary"))>>, 5),
     BaseValue(<<>>, 4)}

\* the rules of pollutant p1: with and without multiplier and offset
PollutantRules ==
    {MatchConfig(<<EqualsCriterion("engine_group", Str("propulsion"))>>,
         [k \in {"base_value_name", "multiplier", "offset_g_per_kwh"} |->
             CASE k = "base_value_name" -> Str("b1")
               [] k = "multiplier" -> Num(2)
               [] OTHER -> Num(1)]),
     MatchConfig(<<RangeCriterion("engine_rpm", Num(0), Num(1000))>>,
         [k \in {"base_value_name", "multiplier"} |->
             IF k = "base_value_name" THEN Str("b1") ELSE Num(3)]),
     MatchConfig(
         <<DisjunctionCriterion("engine_group",
             <<EqualsCriterion("engine_group", Str("auxiliary")),
               EqualsCriterion("engine_group", Str("boiler"))>>)>>,
         [k \in {"base_value_name", "offset_g_per_kwh"} |->
             IF k = "base_value_name" THEN Str("b2") ELSE Num(7)]),
     MatchConfig(<<>>, Dict1("base_value_name", Str("b2")))}

EnginePower(criteria, kw) ==
    MatchConfig(criteria,
        [mode \in Mode |->
            CASE mode = "transit" -> Num(kw)
              [] mode = "maneuvering" -> Num(kw + 1)
              [] mode = "hotelling" -> Num(kw + 2)
              [] OTHER -> Num(kw + 3)])

EnginePowerConfigs ==
    {<<EnginePower(<<EqualsCriterion("engine_group", Str("auxiliary"))>>,
                   100),
       EnginePower(<<EqualsCriterion("engine_group", Str("boiler"))>>, 200)>>,
     <<EnginePower(<<RangeCriterion("engine_rpm", Num(0), Num(1000))>>, 300),
       EnginePower(
           <<DisjunctionCriterion("engine_group",
               <<EqualsCriterion("engine_group", Str("auxiliary")),
                 EqualsCriterion("engine_group", Str("boiler"))>>)>>,
           400)>>}

LowLoad(criteria, range_factors) ==
    [criteria |-> criteria, data |-> [range_factors |-> range_factors]]
RangeFactors(ge, lt, factors) ==
    [range |-> [k \in {"ge", "lt"} |-> IF k = "ge" THEN Num(ge) ELSE Num(lt)],
     factors |-> factors]

LowLoadConfigs ==
    {<<>>,
     <<LowLoad(<<EqualsCriterion("engine_rpm", Num(800))>>,
               <<RangeFactors(0, 10, Dict1("p1", Num(2)))>>),
       LowLoad(<<>>, <<RangeFactors(0, 10, Dict1("p1", Num(3))),
                       RangeFactors(10, 15, Dict1("p2", Num(4)))>>)>>}

\* dc.asdict() of the vessels: valid VesselInfo objects
VesselInfos ==
    {[k \in FIELD_NAMES |->
        CASE k = "max_speed" -> Num(10)
          [] k = "engine_kw" -> Num(100)
          [] k = "engine_rpm" -> Num(rpm)
          [] k = "engine_category" -> Str("c3")
          [] k = "engine_nox_tier" -> Num(1)
          [] k = "ship_type" -> Str("bulk_carrier")
          [] k = "size" -> Num(7)
          [] OTHER -> Str("dwt")] : rpm \in {800, 1200, 1700}}

NoConfig == [emission_factors |-> <<>>, engine_powers |-> <<>>,
             low_load_adjustment_factors |-> <<>>]

EmissionIdle ==
    /\ e_pc = "idle"
    /\ e_vessel_info = EmptyDict
    /\ e_mode = ""
    /\ e_config = NoConfig

EmissionUnused ==
    /\ base_values = <<>>
    /\ pollutants = <<>>
    /\ engine_powers = <<>>
    /\ low_load_adjustment_factors = <<>>
    /\ EmissionIdle

e_rules == <<base_values, pollutants, engine_powers,
             low_load_adjustment_factors>>

\* configs.config_for(vessel_info, mode)
ConfigFor ==
    /\ e_pc = "idle"
    /\ \E vessel_info \in VesselInfos, mode \in Mode :
          /\ e_vessel_info' = vessel_info
          /\ e_mode' = mode
          /\ e_config' = config_for(base_values, pollutants, engine_powers,
                                    low_load_adjustment_factors, vessel_info,
                                    mode)
    /\ e_pc' = "done"
    /\ UNCHANGED e_rules

\* the caller is done with the config
ConfigForReturn ==
    /\ e_pc = "done"
    /\ e_pc' = "idle"
    /\ e_vessel_info' = EmptyDict
    /\ e_mode' = ""
    /\ e_config' = NoConfig
    /\ UNCHANGED e_rules

-----------------------------------------------------------------------------
(* The registry of criterion names under test *)

\* the constructors of the three variants: DisjunctionCriterion.__init__
\* raises if a sub-criterion has another name, then Criterion.__init__
\* validates against the registry; "ok" or the exception raised
Criterion_init(c, validators) ==
    IF \E i \in DOMAIN c.criteria : c.criteria[i].name # c.name
    THEN "ValueError"
    ELSE assert_valid(c, validators)

\* CriterionMeta.register_name: the registry after the call
register_name(validators, name, validator) ==
    IF name \in DOMAIN validators THEN validators
    ELSE [n \in DOMAIN validators \cup {name} |->
             IF n = name THEN validator ELSE validators[n]]

\* two built-in names, with and without a validator, and two new names
RegistryNames == {"length", "ais_type", "draught", "beam"}
RegistryValidators == {"", "non_negative", "less_than_2"}
RegistryValues == {Num(0 - 1), Num(1), Num(3), Str("x")}

RegistryLeaves(name) ==
    {EqualsCriterion(name, v) : v \in RegistryValues}
      \cup {RangeCriterion(name, Num(ge), Num(lt)) :
               ge \in {0 - 1, 1}, lt \in {0 - 1, 3}}

\* a criterion of another name that exists whatever was registered
OtherNameCriterion(name) ==
    IF name = "ais_type" THEN EqualsCriterion("length", Num(1))
    ELSE EqualsCriterion("ais_type", Num(1))

\* the criteria a caller can try to build: leaves, and disjunctions of
\* criteria that were built before
RegistryCriteria(validators) ==
    UNION {RegistryLeaves(name)
             \cup {DisjunctionCriterion(name, cs) :
                     cs \in SeqsUpTo(
                         {c \in RegistryLeaves(name) :
                             Criterion_init(c, validators) = "ok"}
                           \cup {OtherNameCriterion(name)},
                         MaxSubCriteria)} : name \in RegistryNames}

RegistryIdle ==
    /\ r_op = "none"
    /\ r_name = ""
    /\ r_validator = ""
    /\ r_criterion = NoCriterion
    /\ r_result = ""

\* the registry as the class statement leaves it
RegistryUnused ==
    /\ r_name_validators = name_validators
    /\ r_registered = {}
    /\ r_before = name_validators
    /\ RegistryIdle

\* Criterion.register_name(name, validation_predicate)
RegisterName ==
    /\ r_op = "none"
    /\ \E name \in RegistryNames, validator \in RegistryValidators :
          /\ r_name' = name
          /\ r_validator' = validator
          /\ r_result' = IF name \in DOMAIN r_name_validators
                         THEN "ValueError" ELSE "ok"
          /\ r_name_validators' =
                register_name(r_name_validators, name, validator)
          /\ r_registered' = IF name \in DOMAIN r_name_validators
                             THEN r_registered ELSE r_registered \cup {name}
    /\ r_before' = r_name_validators
    /\ r_op' = "register"
    /\ UNCHANGED r_criterion

\* EqualsCriterion(...), RangeCriterion(...) or DisjunctionCriterion(...)
ConstructCriterion ==
    /\ r_op = "none"
    /\ \E c \in RegistryCriteria(r_name_validators) :
          /\ r_criterion' = c
          /\ r_result' = Criterion_init(c, r_name_validators)
    /\ r_before' = r_name_validators
    /\ r_op' = "construct"
    /\ UNCHANGED <<r_name_validators, r_registered, r_name, r_validator>>

\* the call is over
RegistryReturn ==
    /\ r_op # "none"
    /\ r_op' = "none"
    /\ r_name' = ""
    /\ r_validator' = ""
    /\ r_criterion' = NoCriterion
    /\ r_result' = ""
    /\ UNCHANGED <<r_name_validators, r_registered, r_before>>

-----------------------------------------------------------------------------
(* The track under test *)

MaxPositions == 3
MaxPositionDicts == 3

TrackTimes == {0, 3600, 7200}

\* a position dict with all of sog, cog, heading and a valid tide, one
\* without sog and tide, one with an implausibly high sog, without cog and
\* heading and with an invalid tide, one of a vessel at rest, and one with
\* a sog above MAX_CALCULATED_SPEED
PositionDict(ts, lon, variant) ==
    LET base == [k \in {"ts", "lon", "lat", "sog", "cog", "heading"} |->
                    CASE k = "ts" -> Num(ts)
                      [] k = "lon" -> Num(lon)
                      [] k = "lat" -> Num(0)
                      [] k = "sog" ->
                            CASE variant = "full" -> Num(5)
                              [] variant = "no_sog" -> None
                              [] variant = "fast" -> Num(12)
                              [] variant = "racing" -> Num(20)
                              [] OTHER -> Num(0)
                      [] k = "cog" ->
                            CASE variant = "fast" -> None
                              [] variant = "at_rest" -> Num(0)
                              [] OTHER -> Num(90)
                      [] OTHER ->
                            IF variant = "fast" THEN None ELSE Num(0)]
    IN  CASE variant = "full" ->
                DictUnion(base, [k \in {"tide_flow", "tide_bearing"} |->
                                    IF k = "tide_flow" THEN Num(1)
                                    ELSE Num(90)])
          [] variant = "fast" ->
                DictUnion(base, [k \in {"tide_flow", "tide_bearing"} |->
                                    IF k = "tide_flow" THEN Num(0 - 1)
                                    ELSE Num(0)])
          [] OTHER -> base

PositionDicts ==
    {PositionDict(ts, lon, variant) :
        ts \in TrackTimes, lon \in {0, 2},
        variant \in {"full", "no_sog", "fast", "at_rest"}}

SogKinds == {"always_true", "below_10"}
DistanceKinds == {"always_true", "within_2_degrees"}

TrackIdle ==
    /\ t_op = "none"
    /\ t_result = ""
    /\ t_dicts = <<>>
    /\ t_sog_kind = ""
    /\ t_distance_kind = ""

\* Track()
TrackUnused == t_track = EmptyTrack /\ TrackIdle

\* track.append_position(ts, lon, lat, sog, cog, heading), with a longitude
\* that may be out of range
AppendPosition ==
    /\ t_op = "none"
    /\ Len(t_track.positions) < MaxPositions
    /\ \E ts \in TrackTimes, lon \in {0, 2, 180} :
          LET r == append_position(t_track, ts, lon, 0, RInt(5), 90, 0,
                                   RInt(0), 0)
          IN  /\ t_track' = r.track
              /\ t_result' = r.result
    /\ t_op' = "append"
    /\ UNCHANGED <<t_dicts, t_sog_kind, t_distance_kind>>

\* track = Track.sanitized_from_positions(dicts, sog_is_plausible,
\* distance_covered_is_plausible); no track is returned if it raises
SanitizedFromPositions ==
    /\ t_op = "none"
    /\ t_track = EmptyTrack
    /\ \E dicts \in SeqsUpTo(PositionDicts, MaxPositionDicts),
          sog_kind \in SogKinds, distance_kind \in DistanceKinds :
          LET r == sanitized_from_positions(dicts, sog_kind, distance_kind)
          IN  /\ t_track' = IF r.result = "ok" THEN r.track ELSE t_track
              /\ t_result' = r.result
              /\ t_dicts' = dicts
              /\ t_sog_kind' = sog_kind
              /\ t_distance_kind' = distance_kind
    /\ t_op' = "sanitized"

\* the call is over
TrackReturn ==
    /\ t_op # "none"
    /\ t_op' = "none"
    /\ t_result' = ""
    /\ t_dicts' = <<>>
    /\ t_sog_kind' = ""
    /\ t_distance_kind' = ""
    /\ UNCHANGED t_track

MaxReports == 5

RECURSIVE Reports(_)
\* the inputs of n reports, one every ten minutes, each fully specified and
\* at one of three longitudes
Reports(n) ==
    IF n = 0 THEN {<<>>}
    ELSE {Append(dicts, PositionDict(600 * n, lon, "full")) :
             dicts \in Reports(n - 1), lon \in {0, 2, 4}}

\* track = Track.sanitized_from_positions(dicts, sog_is_plausible,
\* distance_covered_is_plausible) with up to MaxReports position dicts
SanitizedFromReports ==
    /\ t_op = "none"
    /\ t_track = EmptyTrack
    /\ \E n \in 0..MaxReports, sog_kind \in SogKinds,
          distance_kind \in DistanceKinds :
          \E dicts \in Reports(n) :
             LET r == sanitized_from_positions(dicts, sog_kind, distance_kind)
             IN  /\ t_track' = IF r.result = "ok" THEN r.track ELSE t_track
                 /\ t_result' = r.result
                 /\ t_dicts' = dicts
                 /\ t_sog_kind' = sog_kind
                 /\ t_distance_kind' = distance_kind
    /\ t_op' = "sanitized"

MaxSpeedReports == 3

RECURSIVE SpeedReports(_)
\* the inputs of n reports in the order of their timestamps, each at the
\* time of the one before or ten hours later, at one of three longitudes
\* and without sog, with a sog of 12 and no cog, or with a sog of 20
SpeedReports(n) ==
    IF n = 0 THEN {<<>>}
    ELSE {Append(dicts,
                 PositionDict((IF dicts = <<>> THEN 0
                               ELSE dicts[Len(dicts)]["ts"].n) + hours * 3600,
                              lon, variant)) :
             dicts \in SpeedReports(n - 1), hours \in {0, 10},
             lon \in {0, 1, 3}, variant \in {"no_sog", "fast", "racing"}}

\* track = Track.sanitized_from_positions(dicts, sog_is_plausible,
\* distance_covered_is_plausible) with up to MaxSpeedReports of them
SanitizedFromSpeedReports ==
    /\ t_op = "none"
    /\ t_track = EmptyTrack
    /\ \E n \in 0..MaxSpeedReports, sog_kind \in SogKinds,
          distance_kind \in DistanceKinds :
          \E dicts \in SpeedReports(n) :
             LET r == sanitized_from_positions(dicts, sog_kind, distance_kind)
             IN  /\ t_track' = IF r.result = "ok" THEN r.track ELSE t_track
                 /\ t_result' = r.result
                 /\ t_dicts' = dicts
                 /\ t_sog_kind' = sog_kind
                 /\ t_distance_kind' = distance_kind
    /\ t_op' = "sanitized"

-----------------------------------------------------------------------------
(* The position under test: speeds and bearings for which the speed       *)
(* through water is a whole number                                         *)

PositionSogs == {0, 3}
PositionCogs == {0, 90}
PositionTideFlows == {0, 4}
PositionTideBearings == {0, 90, 180}

NoPosition == Position(0, 0, 0, 0, RInt(0), 0, 0, RInt(0), 0)

PositionIdle ==
    /\ p_op = "none"
    /\ p_value = 0
    /\ p_result = ""

PositionUnused ==
    /\ position = NoPosition
    /\ p_before = NoPosition
    /\ p_read = <<>>
    /\ p_prev_read = <<>>
    /\ PositionIdle

\* position.stw
ReadStw ==
    /\ p_op = "none"
    /\ p_before' = position
    /\ position' = Position_after_stw(position)
    /\ p_read' = <<Position_stw(position)>>
    /\ p_prev_read' = p_read
    /\ p_result' = "ok"
    /\ p_op' = "stw"
    /\ UNCHANGED p_value

\* position.tide_flow = value
SetTideFlow ==
    /\ p_op = "none"
    /\ \E value \in PositionTideFlows \cup {0 - 1} :
          /\ p_value' = value
          /\ position' = Position_set_tide_flow(position, RInt(value))
          /\ p_result' = IF Speed_valid(RInt(value)) THEN "ok"
                         ELSE "ValueError"
    /\ p_before' = position
    /\ p_op' = "tide_flow"
    /\ UNCHANGED <<p_read, p_prev_read>>

\* position.tide_bearing = value
SetTideBearing ==
    /\ p_op = "none"
    /\ \E value \in PositionTideBearings \cup {0 - 90, 360} :
          /\ p_value' = value
          /\ position' = Position_set_tide_bearing(position, value)
          /\ p_result' = IF Bearing_valid(value) THEN "ok" ELSE "ValueError"
    /\ p_before' = position
    /\ p_op' = "tide_bearing"
    /\ UNCHANGED <<p_read, p_prev_read>>

\* the call is over
PositionReturn ==
    /\ p_op # "none"
    /\ p_op' = "none"
    /\ p_value' = 0
    /\ p_result' = ""
    /\ UNCHANGED <<position, p_before, p_read, p_prev_read>>

-----------------------------------------------------------------------------
(* The sanitizer under test *)

\* the deviations 0, 0.2 and 0.25 and the factors 0.5, 1, 9 and 10
Deviations == {RInt(0), Rat(1, 5), Rat(1, 4)}
IncreaseFactors == {Rat(1, 2), RInt(1), RInt(9), RInt(10)}

\* a segment of a duration in seconds between positions with the sogs
\* given, its distance set in nautical miles
SegmentOf(seconds, sog1, sog2, miles) ==
    [Segment(Position(1, 0, 0, 0, sog1, 0, 0, RInt(0), 0),
             Position(2, seconds, 0, 0, sog2, 0, 0, RInt(0), 0))
        EXCEPT !.distance = <<miles * 1852>>]

SanitizerSogs == {RInt(0), Rat(1, 10), RInt(1), RInt(2), RInt(8)}

SanitizerSegments ==
    {SegmentOf(seconds, sog1, sog2, miles) :
        seconds \in {0, 3600, 7200}, sog1 \in SanitizerSogs,
        sog2 \in SanitizerSogs, miles \in {0, 8, 13}}

NoSegment == Segment(NoPosition, NoPosition)

SanitizerIdle ==
    /\ s_pc = "idle"
    /\ s_segment = NoSegment
    /\ s_hours = RInt(0)

\* SegmentDurationSanitizer() with the defaults of its arguments
SanitizerUnused ==
    /\ max_fuel_calc_distance_deviation = Rat(1, 4)
    /\ max_fuel_calc_duration_increase_factor = RInt(10)
    /\ SanitizerIdle

\* sanitizer.adjusted_segment_hours(segment)
AdjustedSegmentHours ==
    /\ s_pc = "idle"
    /\ \E segment \in SanitizerSegments :
          /\ s_segment' = segment
          /\ s_hours' = adjusted_segment_hours(
                            max_fuel_calc_distance_deviation,
                            max_fuel_calc_duration_increase_factor, segment)
    /\ s_pc' = "done"
    /\ UNCHANGED <<max_fuel_calc_distance_deviation,
                   max_fuel_calc_duration_increase_factor>>

\* the caller is done with the hours
AdjustedSegmentHoursReturn ==
    /\ s_pc = "done"
    /\ s_pc' = "idle"
    /\ s_segment' = NoSegment
    /\ s_hours' = RInt(0)
    /\ UNCHANGED <<max_fuel_calc_distance_deviation,
                   max_fuel_calc_duration_increase_factor>>

-----------------------------------------------------------------------------
(* The calculator under test: its config, its vessels and the tracks *)

MaxTrackPositions == 3

\* the pollutants: p1 of the propulsion only and p2 of the other engines,
\* or p1 of every engine and p2 of the slow ones
CalculatorPollutants ==
    {[name \in {"p1", "p2"} |->
        IF name = "p1"
        THEN <<MatchConfig(
                 <<EqualsCriterion("engine_group", Str("propulsion"))>>,
                 [k \in {"base_value_name", "multiplier",
                         "offset_g_per_kwh"} |->
                     CASE k = "base_value_name" -> Str("b1")
                       [] k = "multiplier" -> Num(2)
                       [] OTHER -> Num(1)])>>
        ELSE <<MatchConfig(
                 <<DisjunctionCriterion("engine_group",
                     <<EqualsCriterion("engine_group", Str("auxiliary")),
                       EqualsCriterion("engine_group", Str("boiler"))>>)>>,
                 [k \in {"base_value_name", "offset_g_per_kwh"} |->
                     IF k = "base_value_name" THEN Str("b2") ELSE Num(7)])>>],
     [name \in {"p1", "p2"} |->
        IF name = "p1"
        THEN <<MatchConfig(<<>>, Dict1("base_value_name", Str("b2")))>>
        ELSE <<MatchConfig(
                 <<RangeCriterion("engine_rpm", Num(0), Num(1000))>>,
                 [k \in {"base_value_name", "multiplier"} |->
                     IF k = "base_value_name" THEN Str("b1")
                     ELSE Num(3)])>>]}

CalculatorBaseValues ==
    [name \in {"b1", "b2"} |->
        IF name = "b1"
        THEN <<BaseValue(<<EqualsCriterion("engine_group",
                                           Str("auxiliary"))>>, 5),
               BaseValue(<<>>, 4)>>
        ELSE <<BaseValue(<<>>, 8)>>]

\* factors for the full load and then for every load, the ranges of which
\* overlap, or factors for the full load only
CalculatorLowLoadConfigs ==
    {<<LowLoad(<<>>, <<RangeFactors(1, 2, [k \in {"p1", "p3"} |->
                                              IF k = "p1" THEN Num(2)
                                              ELSE Num(3)]),
                       RangeFactors(0, 2, [k \in {"p1", "p2"} |->
                                              IF k = "p1" THEN Num(3)
                                              ELSE Num(5)])>>)>>,
     <<LowLoad(<<>>, <<RangeFactors(1, 2, Dict1("p2", Num(4))),
                       RangeFactors(1, 3, Dict1("p1", Num(5)))>>)>>}

SeaMarginFactors == {Rat(1, 2), RInt(1), Rat(5, 4)}

\* the position of a track after a leg: its sog and tide, the seconds and
\* the nautical miles of the leg
Leg(sog, tide_flow, tide_bearing, seconds, miles) ==
    [sog |-> sog, tide_flow |-> tide_flow, tide_bearing |-> tide_bearing,
     seconds |-> seconds, miles |-> miles]

\* at rest, at full speed against the tide, and adrift against the tide
Legs ==
    {Leg(0, 0, 0, 7200, 0), Leg(10, 10, 180, 3600, 5),
     Leg(0, 5, 180, 5400, 13)}

RECURSIVE TrackOf(_)
\* the track make_ts_speeds_distance_track builds: append_position for
\* every position, the distance of every segment set afterwards
TrackOf(legs) ==
    IF legs = <<>> THEN EmptyTrack
    ELSE LET before == TrackOf(SubSeq(legs, 1, Len(legs) - 1))
             leg == legs[Len(legs)]
             ts == IF before.positions = <<>> THEN 0
                   ELSE before.positions[Len(before.positions)].ts
                          + leg.seconds
             after == append_position(before, ts, 0, 0, RInt(leg.sog), 0, 0,
                                      RInt(leg.tide_flow),
                                      leg.tide_bearing).track
         IN  IF after.segments = <<>> THEN after
             ELSE [after EXCEPT
                      !.segments[Len(after.segments)].distance =
                          <<leg.miles * 1852>>]

CalculatorTracks == {TrackOf(legs) : legs \in SeqsUpTo(Legs, MaxTrackPositions)}

CalculatorModes == Mode \cup {"not a valid mode"}

\* the calculator as the operators take it
calculator ==
    [vessel_info |-> c_vessel_info,
     sea_margin |-> sea_margin_adjustment_factor,
     deviation |-> max_fuel_calc_distance_deviation,
     max_increase |-> max_fuel_calc_duration_increase_factor]

\* Config.emission_config_for
emission_config_for(vessel_info, mode) ==
    config_for(base_values, pollutants, engine_powers,
               low_load_adjustment_factors, vessel_info, mode)

CalculatorIdle ==
    /\ c_op = "none"
    /\ c_stw = RInt(0)
    /\ c_mode = ""
    /\ c_track = EmptyTrack
    /\ c_hours = RInt(0)
    /\ c_config = <<>>
    /\ c_error = ""
    /\ c_load = RInt(0)
    /\ c_result = EmptyOpDict

CalculatorUnused ==
    /\ sea_margin_adjustment_factor = RInt(1)
    /\ c_vessel_info = EmptyDict
    /\ CalculatorIdle

\* calculator.propulsion_load_at_stw(stw)
PropulsionLoadAtStw ==
    /\ c_op = "none"
    /\ \E stw \in {RInt(0), RInt(5), Rat(19, 2), RInt(10), RInt(11)} :
          /\ c_stw' = stw
          /\ c_load' = propulsion_load_at_stw(
                           stw, RInt(c_vessel_info["max_speed"].n),
                           sea_margin_adjustment_factor)
    /\ c_op' = "load"
    /\ UNCHANGED <<sea_margin_adjustment_factor, c_vessel_info, c_mode,
                   c_track, c_hours, c_config, c_error, c_result>>

\* calculator.segment_propulsion_emissions(segment, emission_config) with
\* the only segment of a track and the emission config of a mode
SegmentPropulsionEmissions ==
    /\ c_op = "none"
    /\ \E trk \in CalculatorTracks, mode \in {"transit", "maneuvering"} :
          /\ Len(trk.segments) = 1
          /\ c_track' = trk
          /\ c_mode' = mode
          /\ c_config' = <<emission_config_for(c_vessel_info, mode)>>
          /\ c_result' = segment_propulsion_emissions(
                             calculator, trk.segments[1],
                             emission_config_for(c_vessel_info, mode))
    /\ c_op' = "segment"
    /\ UNCHANGED <<sea_margin_adjustment_factor, c_vessel_info, c_stw,
                   c_hours, c_error, c_load>>

\* calculator.calculate_track_emissions(track, mode)
CalculateTrackEmissions ==
    /\ c_op = "none"
    /\ \E trk \in CalculatorTracks, mode \in CalculatorModes :
          /\ c_track' = trk
          /\ c_mode' = mode
          /\ IF ~track_mode_valid(mode)
             THEN /\ c_error' = "ValueError"
                  /\ UNCHANGED <<c_config, c_result>>
             ELSE LET emission_config ==
                          emission_config_for(c_vessel_info, mode)
                  IN  /\ c_error' = ""
                      /\ c_config' = Append(c_config, emission_config)
                      /\ c_result' = calculate_track_emissions(
                                         calculator, trk, emission_config)
    /\ c_op' = "track"
    /\ UNCHANGED <<sea_margin_adjustment_factor, c_vessel_info, c_stw,
                   c_hours, c_load>>

\* calculator.calculate_mooring_emissions(duration, mode)
CalculateMooringEmissions ==
    /\ c_op = "none"
    /\ \E hours \in {RInt(0), RInt(1), Rat(3, 2)}, mode \in CalculatorModes :
          /\ c_hours' = hours
          /\ c_mode' = mode
          /\ IF ~mooring_mode_valid(mode)
             THEN /\ c_error' = "ValueError"
                  /\ UNCHANGED <<c_config, c_result>>
             ELSE LET emission_config ==
                          emission_config_for(c_vessel_info, mode)
                  IN  /\ c_error' = ""
                      /\ c_config' = Append(c_config, emission_config)
                      /\ c_result' = calculate_mooring_emissions(
                                         hours, emission_config)
    /\ c_op' = "mooring"
    /\ UNCHANGED <<sea_margin_adjustment_factor, c_vessel_info, c_stw,
                   c_track, c_load>>

\* the call is over
CalculatorReturn ==
    /\ c_op # "none"
    /\ c_op' = "none"
    /\ c_stw' = RInt(0)
    /\ c_mode' = ""
    /\ c_track' = EmptyTrack
    /\ c_hours' = RInt(0)
    /\ c_config' = <<>>
    /\ c_error' = ""
    /\ c_load' = RInt(0)
    /\ c_result' = EmptyOpDict
    /\ UNCHANGED <<sea_margin_adjustment_factor, c_vessel_info>>

-----------------------------------------------------------------------------
(* The construction of an EmissionConfigs under test: engine-power rules  *)
(* that validation accepts and rules it rejects                            *)

MaxPowerRules == 2

\* the powers of a rule: a number for every mode, a string for one mode, or
\* one mode missing
PowerData(variant) ==
    CASE variant = "numbers" -> EnginePower(<<>>, 100).data
      [] variant = "string" ->
            [EnginePower(<<>>, 100).data EXCEPT !["hotelling"] = Str("x")]
      [] OTHER -> [mode \in Mode \ {"anchorage"} |-> Num(100)]

\* the criteria of a rule: none, engine_group only, another name only, and
\* engine_group with another name
PowerCriteria ==
    {<<>>,
     <<EqualsCriterion("engine_group", Str("auxiliary"))>>,
     <<EqualsCriterion("engine_group", Str("boiler"))>>,
     <<DisjunctionCriterion("engine_group",
           <<EqualsCriterion("engine_group", Str("auxiliary")),
             EqualsCriterion("engine_group", Str("boiler"))>>)>>,
     <<RangeCriterion("engine_rpm", Num(0), Num(1000))>>,
     <<EqualsCriterion("engine_group", Str("auxiliary")),
       EqualsCriterion("engine_rpm", Num(800))>>}

PowerRules ==
    {MatchConfig(criteria, PowerData(variant)) :
        criteria \in PowerCriteria,
        variant \in {"numbers", "string", "missing"}}

ConstructIdle ==
    /\ k_engine_powers = <<>>
    /\ k_result = ""

\* EmissionConfigs({}, {}, engine_powers, [])
ConstructEmissionConfigs ==
    /\ k_result = ""
    /\ \E powers \in SeqsUpTo(PowerRules, MaxPowerRules) :
          /\ k_engine_powers' = powers
          /\ k_result' = IF EmissionConfigs_assert_valid_config(
                               <<>>, <<>>, powers, <<>>)
                         THEN "ok" ELSE "ValueError"

\* the constructor has returned or raised
ConstructReturn ==
    /\ k_result # ""
    /\ k_engine_powers' = <<>>
    /\ k_result' = ""

-----------------------------------------------------------------------------
(* The generator under test *)

MaxElements == 4

ContextIterUnused ==
    /\ i_iterable = <<>>
    /\ past_context_size = 1
    /\ future_context_size = 0
    /\ i_consumed = 0
    /\ i_past = <<>>
    /\ i_future = <<>>
    /\ i_pc = "start"
    /\ i_yielded = <<>>

\* next(generator), as the for statement of the caller calls it
ContextIterNext ==
    /\ i_pc # "done"
    /\ LET current == IF i_yielded = <<>> THEN <<>>
                      ELSE <<i_yielded[Len(i_yielded)][2]>>
           gen == context_iter_next(
                      [consumed |-> i_consumed, past |-> i_past,
                       future |-> i_future, pc |-> i_pc, current |-> current],
                      i_iterable, past_context_size, future_context_size)
       IN  /\ i_consumed' = gen.consumed
           /\ i_past' = gen.past
           /\ i_future' = gen.future
           /\ i_pc' = gen.pc
           /\ i_yielded' = IF gen.pc = "done" THEN i_yielded
                           ELSE Append(i_yielded,
                                       <<gen.past, gen.current[1],
                                         gen.future>>)
    /\ UNCHANGED <<i_iterable, past_context_size, future_context_size>>

-----------------------------------------------------------------------------
(* Calls of partial_track on the track under test *)

PartialTimes == {0, 1800, 3600, 7200, 9000}

PartialIdle ==
    /\ b_op = "none"
    /\ b_start_ts = 0
    /\ b_end_ts = 0
    /\ b_before = EmptyTrack
    /\ b_returned = EmptyTrack
    /\ b_is_self = FALSE
    /\ b_error = ""

\* track.partial_track(start_ts, end_ts); nothing is assigned to the track
PartialTrack ==
    /\ t_op = "none"
    /\ b_op = "none"
    /\ \E start_ts \in PartialTimes, end_ts \in PartialTimes :
          LET r == partial_track(t_track, start_ts, end_ts)
          IN  /\ b_start_ts' = start_ts
              /\ b_end_ts' = end_ts
              /\ b_returned' = r.track
              /\ b_is_self' = r.is_self
              /\ b_error' = r.error
    /\ b_op' = "partial"
    /\ b_before' = t_track
    /\ UNCHANGED t_vars

\* the call is over
PartialReturn ==
    /\ b_op = "partial"
    /\ b_op' = "none"
    /\ b_start_ts' = 0
    /\ b_end_ts' = 0
    /\ b_before' = EmptyTrack
    /\ b_returned' = EmptyTrack
    /\ b_is_self' = FALSE
    /\ b_error' = ""
    /\ UNCHANGED t_vars

\* the machines after the calculator are unused
NewUnused ==
    /\ ConstructIdle
    /\ ContextIterUnused
    /\ PartialIdle

\* the machines other than matching, guessing and config_for are unused
OthersUnused ==
    /\ RegistryUnused
    /\ TrackUnused
    /\ PositionUnused
    /\ SanitizerUnused
    /\ CalculatorUnused
    /\ NewUnused

-----------------------------------------------------------------------------
(* The specifications *)

vars == <<m_vars, g_vars, e_vars, x_vars>>

MatchInit == MatchIdle /\ GuessUnused /\ EmissionUnused /\ OthersUnused
MatchNext ==
    \/ /\ CallCriterionMatches
       /\ UNCHANGED <<g_vars, e_vars, x_vars>>
    \/ /\ CallMatchConfigMatches
       /\ UNCHANGED <<g_vars, e_vars, x_vars>>
    \/ /\ MatchReturn
       /\ UNCHANGED <<g_vars, e_vars, x_vars>>
SpecMatch == MatchInit /\ [][MatchNext]_vars

\* a guesser whose construction succeeded
GuessInit ==
    /\ MatchIdle
    /\ EmissionUnused
    /\ OthersUnused
    /\ guess_data \in GuessConfigs
    /\ average_vessel_build_times \in BuildTimeConfigs
    /\ VesselInfoGuesser_assert_valid_config(guess_data,
                                             average_vessel_build_times)
    /\ GuessIdle
GuessNext ==
    \/ /\ GuessCall
       /\ UNCHANGED <<m_vars, e_vars, x_vars>>
    \/ /\ GuessRule
       /\ UNCHANGED <<m_vars, e_vars, x_vars>>
    \/ /\ GuessMaybeImprove
       /\ UNCHANGED <<m_vars, e_vars, x_vars>>
    \/ /\ GuessReturn
       /\ UNCHANGED <<m_vars, e_vars, x_vars>>
SpecGuess == GuessInit /\ [][GuessNext]_vars

\* emission configs whose construction succeeded
EmissionInit ==
    /\ MatchIdle
    /\ GuessUnused
    /\ OthersUnused
    /\ \E b1 \in DistinctSeqsUpTo(BaseValueRules, MaxBaseRules),
          p1 \in DistinctSeqsUpTo(PollutantRules, MaxPollutantRules),
          p2 \in {<<>>, <<MatchConfig(<<>>,
                              Dict1("base_value_name", Str("b1")))>>} :
          /\ base_values = [name \in {"b1", "b2"} |->
                              IF name = "b1" THEN b1 ELSE <<BaseValue(<<>>, 8)>>]
          /\ pollutants = [name \in {"p1", "p2"} |->
                              IF name = "p1" THEN p1 ELSE p2]
    /\ engine_powers \in EnginePowerConfigs
    /\ low_load_adjustment_factors \in LowLoadConfigs
    /\ EmissionConfigs_assert_valid_config(base_values, pollutants,
                                           engine_powers,
                                           low_load_adjustment_factors)
    /\ EmissionIdle
EmissionNext ==
    \/ /\ ConfigFor
       /\ UNCHANGED <<m_vars, g_vars, x_vars>>
    \/ /\ ConfigForReturn
       /\ UNCHANGED <<m_vars, g_vars, x_vars>>
SpecEmission == EmissionInit /\ [][EmissionNext]_vars

RegistryInit ==
    /\ MatchIdle
    /\ GuessUnused
    /\ EmissionUnused
    /\ OthersUnused
RegistryNext ==
    \/ /\ RegisterName
       /\ UNCHANGED <<m_vars, g_vars, e_vars, t_vars, p_vars, s_vars, c_vars, n_vars>>
    \/ /\ ConstructCriterion
       /\ UNCHANGED <<m_vars, g_vars, e_vars, t_vars, p_vars, s_vars, c_vars, n_vars>>
    \/ /\ RegistryReturn
       /\ UNCHANGED <<m_vars, g_vars, e_vars, t_vars, p_vars, s_vars, c_vars, n_vars>>
SpecRegistry == RegistryInit /\ [][RegistryNext]_vars

TrackInit ==
    /\ MatchIdle
    /\ GuessUnused
    /\ EmissionUnused
    /\ OthersUnused
TrackNext ==
    \/ /\ AppendPosition
       /\ UNCHANGED <<m_vars, g_vars, e_vars, r_vars, p_vars, s_vars, c_vars, n_vars>>
    \/ /\ SanitizedFromPositions
       /\ UNCHANGED <<m_vars, g_vars, e_vars, r_vars, p_vars, s_vars, c_vars, n_vars>>
    \/ /\ TrackReturn
       /\ UNCHANGED <<m_vars, g_vars, e_vars, r_vars, p_vars, s_vars, c_vars, n_vars>>
SpecTrack == TrackInit /\ [][TrackNext]_vars

\* a new track and a longer input of reports
ReportsInit == TrackInit
ReportsNext ==
    \/ /\ SanitizedFromReports
       /\ UNCHANGED <<m_vars, g_vars, e_vars, r_vars, p_vars, s_vars, c_vars, n_vars>>
    \/ /\ TrackReturn
       /\ UNCHANGED <<m_vars, g_vars, e_vars, r_vars, p_vars, s_vars, c_vars, n_vars>>
SpecReports == ReportsInit /\ [][ReportsNext]_vars

\* tracks made by sanitized_from_positions from reports that are slow
\* enough for the calculated speeds to stay below the cap
SpeedsInit == TrackInit
SpeedsNext ==
    \/ /\ SanitizedFromSpeedReports
       /\ UNCHANGED <<m_vars, g_vars, e_vars, r_vars, p_vars, s_vars, c_vars, n_vars>>
    \/ /\ TrackReturn
       /\ UNCHANGED <<m_vars, g_vars, e_vars, r_vars, p_vars, s_vars, c_vars, n_vars>>
SpecSpeeds == SpeedsInit /\ [][SpeedsNext]_vars

\* the constructor of EmissionConfigs before its first call
ConstructInit ==
    /\ MatchIdle
    /\ GuessUnused
    /\ EmissionUnused
    /\ OthersUnused
ConstructNext ==
    \/ /\ ConstructEmissionConfigs
       /\ UNCHANGED <<m_vars, g_vars, e_vars, r_vars, t_vars, p_vars, s_vars,
                      c_vars, i_vars, b_vars>>
    \/ /\ ConstructReturn
       /\ UNCHANGED <<m_vars, g_vars, e_vars, r_vars, t_vars, p_vars, s_vars,
                      c_vars, i_vars, b_vars>>
SpecConstruct == ConstructInit /\ [][ConstructNext]_vars

\* a generator made by surrounding_context_iter(iterable, past_context_size,
\* future_context_size), with the assertion past_context_size >= 1 passed
ContextIterInit ==
    /\ MatchIdle
    /\ GuessUnused
    /\ EmissionUnused
    /\ RegistryUnused
    /\ TrackUnused
    /\ PositionUnused
    /\ SanitizerUnused
    /\ CalculatorUnused
    /\ ConstructIdle
    /\ PartialIdle
    /\ i_iterable \in SeqsUpTo({5, 6}, MaxElements)
    /\ past_context_size \in 1..3
    /\ future_context_size \in 0..2
    /\ i_consumed = 0
    /\ i_past = <<>>
    /\ i_future = <<>>
    /\ i_pc = "start"
    /\ i_yielded = <<>>
ContextIterStep ==
    /\ ContextIterNext
    /\ UNCHANGED <<m_vars, g_vars, e_vars, r_vars, t_vars, p_vars, s_vars,
                   c_vars, k_vars, b_vars>>
\* the caller's for statement goes on calling next() until it is exhausted
SpecContextIter ==
    ContextIterInit /\ [][ContextIterStep]_vars /\ WF_vars(ContextIterStep)

\* a track filled by append_position, and calls of partial_track on it
PartialInit == TrackInit
PartialNext ==
    \/ /\ AppendPosition
       /\ b_op = "none"
       /\ UNCHANGED <<m_vars, g_vars, e_vars, r_vars, p_vars, s_vars, c_vars, n_vars>>
    \/ /\ TrackReturn
       /\ UNCHANGED <<m_vars, g_vars, e_vars, r_vars, p_vars, s_vars, c_vars, n_vars>>
    \/ /\ PartialTrack
       /\ UNCHANGED <<m_vars, g_vars, e_vars, r_vars, p_vars, s_vars, c_vars, k_vars, i_vars>>
    \/ /\ PartialReturn
       /\ UNCHANGED <<m_vars, g_vars, e_vars, r_vars, p_vars, s_vars, c_vars, k_vars, i_vars>>
SpecPartial == PartialInit /\ [][PartialNext]_vars

\* a Position built from valid values without an explicit stw
PositionInit ==
    /\ MatchIdle
    /\ GuessUnused
    /\ EmissionUnused
    /\ RegistryUnused
    /\ TrackUnused
    /\ SanitizerUnused
    /\ CalculatorUnused
    /\ NewUnused
    /\ \E sog \in PositionSogs, cog \in PositionCogs,
          tide_flow \in PositionTideFlows,
          tide_bearing \in PositionTideBearings :
          position = Position(1, 0, 0, 0, RInt(sog), cog, 0,
                              RInt(tide_flow), tide_bearing)
    /\ p_before = position
    /\ p_read = <<>>
    /\ p_prev_read = <<>>
    /\ PositionIdle
PositionNext ==
    \/ /\ ReadStw
       /\ UNCHANGED <<m_vars, g_vars, e_vars, r_vars, t_vars, s_vars, c_vars, n_vars>>
    \/ /\ SetTideFlow
       /\ UNCHANGED <<m_vars, g_vars, e_vars, r_vars, t_vars, s_vars, c_vars, n_vars>>
    \/ /\ SetTideBearing
       /\ UNCHANGED <<m_vars, g_vars, e_vars, r_vars, t_vars, s_vars, c_vars, n_vars>>
    \/ /\ PositionReturn
       /\ UNCHANGED <<m_vars, g_vars, e_vars, r_vars, t_vars, s_vars, c_vars, n_vars>>
SpecPosition == PositionInit /\ [][PositionNext]_vars

\* a sanitizer built with a deviation and a maximum increase factor
SanitizerInit ==
    /\ MatchIdle
    /\ GuessUnused
    /\ EmissionUnused
    /\ RegistryUnused
    /\ TrackUnused
    /\ PositionUnused
    /\ CalculatorUnused
    /\ NewUnused
    /\ max_fuel_calc_distance_deviation \in Deviations
    /\ max_fuel_calc_duration_increase_factor \in IncreaseFactors
    /\ SanitizerIdle
SanitizerNext ==
    \/ /\ AdjustedSegmentHours
       /\ UNCHANGED <<m_vars, g_vars, e_vars, r_vars, t_vars, p_vars, c_vars, n_vars>>
    \/ /\ AdjustedSegmentHoursReturn
       /\ UNCHANGED <<m_vars, g_vars, e_vars, r_vars, t_vars, p_vars, c_vars, n_vars>>
SpecSanitizer == SanitizerInit /\ [][SanitizerNext]_vars

\* a calculator of a vessel with a valid Config and the default sanitizer
CalculatorInit ==
    /\ MatchIdle
    /\ GuessUnused
    /\ RegistryUnused
    /\ TrackUnused
    /\ PositionUnused
    /\ SanitizerUnused
    /\ NewUnused
    /\ base_values = CalculatorBaseValues
    /\ pollutants \in CalculatorPollutants
    /\ engine_powers \in EnginePowerConfigs
    /\ low_load_adjustment_factors \in CalculatorLowLoadConfigs
    /\ EmissionConfigs_assert_valid_config(base_values, pollutants,
                                           engine_powers,
                                           low_load_adjustment_factors)
    /\ EmissionIdle
    /\ sea_margin_adjustment_factor \in SeaMarginFactors
    /\ c_vessel_info \in VesselInfos
    /\ CalculatorIdle
CalculatorNext ==
    \/ /\ PropulsionLoadAtStw
       /\ UNCHANGED <<m_vars, g_vars, e_vars, r_vars, t_vars, p_vars, s_vars,
                    n_vars>>
    \/ /\ SegmentPropulsionEmissions
       /\ UNCHANGED <<m_vars, g_vars, e_vars, r_vars, t_vars, p_vars, s_vars,
                    n_vars>>
    \/ /\ CalculateTrackEmissions
       /\ UNCHANGED <<m_vars, g_vars, e_vars, r_vars, t_vars, p_vars, s_vars,
                    n_vars>>
    \/ /\ CalculateMooringEmissions
       /\ UNCHANGED <<m_vars, g_vars, e_vars, r_vars, t_vars, p_vars, s_vars,
                    n_vars>>
    \/ /\ CalculatorReturn
       /\ UNCHANGED <<m_vars, g_vars, e_vars, r_vars, t_vars, p_vars, s_vars,
                    n_vars>>
SpecCalculator == CalculatorInit /\ [][CalculatorNext]_vars

-----------------------------------------------------------------------------
(* Properties of matching *)

\* C2: MatchConfig.matches(values) is true iff every criterion of the config
\* matches values; a config without criteria matches every bag of values,
\* the empty one included.
C2_MatchesIffAllCriteriaMatch ==
    m_op = "match_config" =>
        /\ m_result \in {"True", "False"}
        /\ m_result = "True" <=>
              \A i \in DOMAIN m_criteria :
                  Criterion_matches(m_criteria[i], m_values) = "True"
        /\ m_criteria = <<>> => m_result = "True"

\* a config without criteria matched the empty bag
C2_Witness ==
    /\ m_op = "match_config"
    /\ m_criteria = <<>>
    /\ m_values = EmptyDict
    /\ m_result = "True"

\* C10: Criterion.matches never raises.  Equals is true iff the name is
\* present and its value equals the bound value; Range is true iff the name
\* is present, its value is a number and ge <= value < lt; Disjunction is
\* true iff at least one sub-criterion matches, so never without
\* sub-criteria.
C10_CriterionMatches ==
    m_op = "criterion" =>
        LET c == m_criterion
            present == c.name \in DOMAIN m_values
        IN  /\ m_result \in {"True", "False"}
            /\ c.kind = "equals" =>
                  (m_result = "True" <=>
                      present /\ m_values[c.name] = c.value)
            /\ c.kind = "range" =>
                  (m_result = "True" <=>
                      /\ present
                      /\ m_values[c.name].t = "num"
                      /\ c.ge.n <= m_values[c.name].n
                      /\ m_values[c.name].n < c.lt.n)
            /\ c.kind = "any_of" =>
                  (m_result = "True" <=>
                      \E i \in DOMAIN c.criteria :
                          Criterion_matches(c.criteria[i], m_values) = "True")
            /\ (c.kind = "any_of" /\ c.criteria = <<>>) => m_result = "False"

\* a range matched the value of its lower bound
C10_Witness ==
    /\ m_op = "criterion"
    /\ m_criterion.kind = "range"
    /\ m_criterion.name \in DOMAIN m_values
    /\ m_values[m_criterion.name] = m_criterion.ge
    /\ m_result = "True"

-----------------------------------------------------------------------------
(* Properties of config_for *)

\* the least index of a rule of configs that matches values, 0 if none
FirstRule(configs, values) ==
    LET S == {j \in DOMAIN configs :
                 MatchConfig_matches(configs[j], values) = "True"}
    IN  IF S = {} THEN 0 ELSE CHOOSE j \in S : \A l \in S : j <= l

\* engine_group plus all VesselInfo attributes of the call
EmissionValues(e) == DictUnion(e_vessel_info, Dict1("engine_group", Str(e)))

\* C1: an emission factor config_for produces is offset_g_per_kwh (default
\* 0) + g_per_kwh * multiplier (default 1), offset and multiplier from the
\* first matching pollutant rule and g_per_kwh from the first matching rule
\* of that rule's base_value_name; a later matching rule changes nothing.
C1_FactorFromFirstMatchingRules ==
    e_pc = "done" =>
        \A e \in EMISSIONS_ENGINE_GROUPS :
            \A p \in DOMAIN e_config.emission_factors[e] :
                LET i == FirstRule(pollutants[p], EmissionValues(e))
                    pc == pollutants[p][i].data
                    b == base_values[pc["base_value_name"].s]
                    j == FirstRule(b, EmissionValues(e))
                    offset == IF "offset_g_per_kwh" \in DOMAIN pc
                              THEN pc["offset_g_per_kwh"].n ELSE 0
                    multiplier == IF "multiplier" \in DOMAIN pc
                                  THEN pc["multiplier"].n ELSE 1
                IN  /\ i # 0
                    /\ j # 0
                    /\ e_config.emission_factors[e][p]
                          = Num(offset + b[j].data["g_per_kwh"].n * multiplier)

\* two pollutant rules and two base value rules match for propulsion, the
\* first pollutant rule has an offset and a multiplier
C1_Witness ==
    /\ e_pc = "done"
    /\ "p1" \in DOMAIN e_config.emission_factors["propulsion"]
    /\ Len(pollutants["p1"]) = 2
    /\ Len(base_values["b1"]) = 2
    /\ pollutants["p1"][1].data # pollutants["p1"][2].data
    /\ \A j \in 1..2 :
          /\ MatchConfig_matches(pollutants["p1"][j],
                                 EmissionValues("propulsion")) = "True"
          /\ MatchConfig_matches(base_values["b1"][j],
                                 EmissionValues("propulsion")) = "True"
    /\ {"offset_g_per_kwh", "multiplier"}
          \subseteq DOMAIN pollutants["p1"][1].data
    /\ pollutants["p1"][1].data["base_value_name"] = Str("b1")

-----------------------------------------------------------------------------
(* Properties of guess_missing_vessel_info *)

\* the fields the caller supplied with a value other than None
Supplied == {k \in DOMAIN g_input \cap FIELD_NAMES : g_input[k] # None}

\* C3: guess_missing_vessel_info never changes a field the caller supplied
\* with a value other than None; when all eight fields are supplied, the
\* result is the supplied field map.
C3_SuppliedFieldsKept ==
    g_pc = "done" =>
        /\ \A k \in Supplied : k \in DOMAIN g_attrs /\ g_attrs[k] = g_input[k]
        /\ Supplied = FIELD_NAMES =>
              g_attrs = [k \in FIELD_NAMES |-> g_input[k]]

C3_Witness ==
    /\ g_pc = "done"
    /\ Supplied = FIELD_NAMES
    /\ g_hits # {}
    /\ g_attrs = g_input

\* C4: during the first pass an attribute that is in attrs is never changed
\* by a later rule, and an attribute other than size and size_unit enters
\* attrs exactly at the first rule that matches values | attrs and carries
\* it, with that rule's value.
C4_FirstRuleWins ==
    [][g_pc = "pass1" =>
        LET rule == guess_data[g_i]
            hit == MatchConfig_matches(rule, DictUnion(g_values, g_attrs))
                      = "True"
        IN  /\ \A k \in DOMAIN g_attrs :
                  k \in DOMAIN g_attrs' /\ g_attrs'[k] = g_attrs[k]
            /\ \A k \in (FIELD_NAMES \ {"size", "size_unit"})
                            \ DOMAIN g_attrs :
                  IF hit /\ k \in DOMAIN rule.data
                  THEN k \in DOMAIN g_attrs' /\ g_attrs'[k] = rule.data[k]
                  ELSE k \notin DOMAIN g_attrs']_vars

\* a later matching rule carried another value for a guessed attribute
C4_Witness ==
    /\ g_pc = "pass1_done"
    /\ \E k \in DOMAIN g_attrs \ {"size", "size_unit"} :
          /\ g_src[k] # 0
          /\ \E j \in g_hits :
                /\ j > g_src[k]
                /\ k \in DOMAIN guess_data[j].data
                /\ guess_data[j].data[k] # g_attrs[k]

\* C5: for a guesser whose validation succeeded and an input that passes
\* the size-without-ship-type guard and whose ship_type, if supplied, is
\* one of the fixed ship types, the result has all eight fields.
C5_ResultComplete ==
    (g_pc = "done"
       /\ ("ship_type" \in Supplied =>
              /\ g_input["ship_type"].t = "str"
              /\ g_input["ship_type"].s
                    \in DOMAIN VALID_SHIP_TYPE_SIZE_UNITS))
        => FIELD_NAMES \subseteq DOMAIN g_attrs

\* C6: a size or size_unit that was guessed comes from a rule whose data
\* ship_type is the ship_type of the result, so a guessed size_unit is a
\* valid unit of the result's ship_type.
C6_SizeFromRuleOfSameShipType ==
    g_pc = "done" =>
        \A k \in {"size", "size_unit"} \cap DOMAIN g_attrs :
            g_src[k] # 0 =>
                LET data == guess_data[g_src[k]].data
                IN  /\ "ship_type" \in DOMAIN g_attrs
                    /\ "ship_type" \in DOMAIN data
                    /\ data["ship_type"] = g_attrs["ship_type"]
                    /\ g_attrs[k] = data[k]
                    /\ k = "size_unit" =>
                          g_attrs[k].s \in valid_units(g_attrs["ship_type"])

\* an earlier matching rule carried the size of another ship type
C6_Witness ==
    /\ g_pc = "done"
    /\ g_kly = None
    /\ "size_unit" \in DOMAIN g_attrs
    /\ g_src["size_unit"] # 0
    /\ \E j \in g_hits :
          /\ j < g_src["size_unit"]
          /\ "size_unit" \in DOMAIN guess_data[j].data
          /\ guess_data[j].data["ship_type"] # g_attrs["ship_type"]
          /\ guess_data[j].data["size_unit"] = g_attrs["size_unit"]

\* C7: the call fails with an input error whenever ship_type is absent or
\* None and size or size_unit is supplied with a value other than None,
\* also for size 0.
C7_SizeWithoutShipTypeRaises ==
    (g_pc # "idle"
       /\ Get(g_input, "ship_type") = None
       /\ (Get(g_input, "size") # None \/ Get(g_input, "size_unit") # None))
        => g_pc = "raised" /\ g_error = "ValueError" /\ g_attrs = EmptyDict

\* the least index of a guess rule that carries engine_nox_tier and matches
\* values, 0 if there is none
FirstNoxRule(values) ==
    LET S == {j \in DOMAIN guess_data :
                 /\ "engine_nox_tier" \in DOMAIN guess_data[j].data
                 /\ MatchConfig_matches(guess_data[j], values) = "True"}
    IN  IF S = {} THEN 0 ELSE CHOOSE j \in S : \A l \in S : j <= l

\* the least index of a build-time rule that matches values, 0 if none
FirstBuildTimeRule(values) ==
    LET S == {j \in DOMAIN average_vessel_build_times :
                 MatchConfig_matches(average_vessel_build_times[j], values)
                    = "True"}
    IN  IF S = {} THEN 0 ELSE CHOOSE j \in S : \A l \in S : j <= l

\* the second pass is due: no engine_nox_tier supplied, category C3, no
\* keel_laid_year, a year_of_build
SecondPassDue ==
    /\ "engine_nox_tier" \notin DOMAIN g_input
    /\ Get(g_attrs1, "engine_category") = Str("c3")
    /\ Get(g_input, "keel_laid_year") = None
    /\ Get(g_input, "year_of_build") # None

\* C8: when the second pass is due, the returned engine_nox_tier is that of
\* the first guess rule that carries engine_nox_tier and matches the
\* context with keel_laid_year = year_of_build - b, b the build_time_years
\* of the first build-time rule that matches values | attrs.
C8_NoxTierFromDerivedKeelLaidYear ==
    (g_pc = "done" /\ SecondPassDue) =>
        LET values == DictWithout(g_input, "keel_laid_year")
            attrs == DictWithout(g_attrs1, "engine_nox_tier")
            b == FirstBuildTimeRule(DictUnion(values, attrs))
            keel_laid_year ==
                g_input["year_of_build"].n
                  - average_vessel_build_times[b].data["build_time_years"].n
            j == FirstNoxRule(
                     DictUnion(DictUnion(values,
                                   Dict1("keel_laid_year",
                                         Num(keel_laid_year))), attrs))
        IN  /\ b # 0
            /\ j # 0
            /\ "engine_nox_tier" \in DOMAIN g_attrs
            /\ g_attrs["engine_nox_tier"]
                  = guess_data[j].data["engine_nox_tier"]

\* the scenario of the tests: the ship type is guessed in the first pass,
\* its build time of 3 years gives the keel laid year 2002
C8_Witness ==
    /\ g_pc = "done"
    /\ SecondPassDue
    /\ "ship_type" \notin DOMAIN g_input
    /\ g_attrs["ship_type"] = Str("oil_tanker")
    /\ g_input["year_of_build"] = Num(2005)
    /\ g_kly = Num(2002)
    /\ g_attrs["engine_nox_tier"] = Num(2)
    /\ g_attrs1["engine_nox_tier"] # Num(2)

\* one of the cases in which the second pass is not to run
NoSecondPass ==
    \/ "engine_nox_tier" \in DOMAIN g_input
    \/ Get(g_attrs, "engine_category") \in {Str("c1"), Str("c2")}
    \/ Get(g_input, "keel_laid_year") # None
    \/ Get(g_input, "year_of_build") = None

-----------------------------------------------------------------------------
(* Properties of the registry of criterion names *)

RECURSIVE BoundValues(_)
\* the values bound to a criterion: the Equals value, the Range bounds, the
\* values bound in a Disjunction's sub-criteria
BoundValues(c) ==
    CASE c.kind = "equals" -> {c.value}
      [] c.kind = "range" -> {c.ge, c.lt}
      [] OTHER -> UNION {BoundValues(c.criteria[i]) : i \in DOMAIN c.criteria}

\* the validator of the criterion's name accepts every value bound to it
ValidatorAccepts(c, validators) ==
    \/ validators[c.name] = ""
    \/ \A v \in BoundValues(c) :
          validation_predicate(validators[c.name], v) = "True"

SameNames(c) == \A i \in DOMAIN c.criteria : c.criteria[i].name = c.name

\* C11: the legal names are the built-in names plus the names registered
\* successfully; registering a legal name fails and leaves the registry
\* unchanged; a criterion can be constructed with a name iff the name is
\* legal at that moment and its validator, if any, accepts the bound value.
C11_RegistryAndConstruction ==
    /\ DOMAIN r_name_validators = DOMAIN name_validators \cup r_registered
    /\ (r_op = "register" /\ r_name \in DOMAIN r_before) =>
          (r_result = "ValueError" /\ r_name_validators = r_before)
    /\ (r_op = "construct" /\ SameNames(r_criterion)) =>
          (r_result = "ok" <=>
              /\ r_criterion.name \in DOMAIN r_name_validators
              /\ ValidatorAccepts(r_criterion, r_name_validators))

\* C12: the construction of a criterion of any variant fails if a value
\* bound to it violates the validator registered for its name.
C12_InvalidBoundValueFails ==
    (/\ r_op = "construct"
     /\ r_criterion.name \in DOMAIN r_name_validators
     /\ ~ValidatorAccepts(r_criterion, r_name_validators)) =>
        r_result # "ok"

-----------------------------------------------------------------------------
(* Properties of tracks *)

\* C13: after any sequence of append_position calls, whether they return
\* or raise, there is one segment less than positions (none for an empty
\* track) and segment i links position i to position i + 1.
C13_SegmentsLinkPositions ==
    /\ Len(t_track.segments) =
          (IF t_track.positions = <<>> THEN 0 ELSE Len(t_track.positions) - 1)
    /\ \A i \in DOMAIN t_track.segments :
          /\ i + 1 \in DOMAIN t_track.positions
          /\ t_track.segments[i].start = t_track.positions[i]
          /\ t_track.segments[i].end = t_track.positions[i + 1]

RECURSIVE KeptFrom(_, _, _)
\* the indices from i on of the position dicts that are not discarded as
\* outliers, in input order
KeptFrom(dicts, i, kind) ==
    IF i > Len(dicts) THEN <<>>
    ELSE (IF position_is_outlier(dicts[i], past_of(dicts, i), kind)
          THEN <<>> ELSE <<i>>) \o KeptFrom(dicts, i + 1, kind)

Kept == KeptFrom(t_dicts, 1, t_distance_kind)

\* every position dict has a sog, a cog and a heading
FullySpecified ==
    \A i \in DOMAIN t_dicts :
        \A k \in {"sog", "cog", "heading"} : t_dicts[i][k] # None

\* C14: a track sanitized_from_positions returns has one position per
\* position dict that is not discarded as an outlier, in input order, with
\* the dict's ts, lon and lat; if every dict has sog, cog and heading and
\* both predicates accept everything, nothing is discarded and the
\* positions have the dicts' sog, cog and heading.
C14_OnePositionPerKeptDict ==
    (t_op = "sanitized" /\ t_result = "ok") =>
        /\ Len(t_track.positions) = Len(Kept)
        /\ \A j \in DOMAIN Kept :
              /\ t_track.positions[j].ts = t_dicts[Kept[j]]["ts"].n
              /\ t_track.positions[j].lon = t_dicts[Kept[j]]["lon"].n
              /\ t_track.positions[j].lat = t_dicts[Kept[j]]["lat"].n
        /\ (/\ FullySpecified
            /\ t_sog_kind = "always_true"
            /\ t_distance_kind = "always_true") =>
              /\ Len(t_track.positions) = Len(t_dicts)
              /\ \A i \in DOMAIN t_dicts :
                    /\ t_track.positions[i].sog = RInt(t_dicts[i]["sog"].n)
                    /\ t_track.positions[i].cog = t_dicts[i]["cog"].n
                    /\ t_track.positions[i].heading = t_dicts[i]["heading"].n

\* a track of two positions made from three dicts, one of them an outlier
C14_Witness ==
    /\ t_op = "sanitized"
    /\ t_result = "ok"
    /\ Len(t_dicts) = 3
    /\ Len(t_track.positions) = 2
    /\ Len(Kept) = 2

-----------------------------------------------------------------------------
(* Properties of positions *)

\* C15: for a Position built without stw, after any interleaving of stw
\* reads and assignments to tide_flow and tide_bearing, a read of stw is
\* the speed through water of sog, cog and the current tide_flow and
\* tide_bearing, and sog if the current tide_flow is 0; a rejected
\* assignment leaves tide_flow, tide_bearing and stw unchanged.
C15_StwFollowsTide ==
    /\ p_op = "stw" =>
          /\ p_read = <<speed_through_water(position.sog, position.cog,
                                            position.tide_flow,
                                            position.tide_bearing)>>
          /\ position.tide_flow = RInt(0) => p_read = <<position.sog>>
    /\ (p_op \in {"tide_flow", "tide_bearing"} /\ p_result = "ValueError") =>
          /\ position.tide_flow = p_before.tide_flow
          /\ position.tide_bearing = p_before.tide_bearing
          /\ position.stw = p_before.stw

\* a read of stw that differs from the read before it, the tide having
\* been changed in between
C15_Witness ==
    /\ p_op = "stw"
    /\ p_prev_read # <<>>
    /\ p_read # p_prev_read
    /\ position.tide_flow # RInt(0)
    /\ p_read # <<position.sog>>

-----------------------------------------------------------------------------
(* Properties of adjusted_segment_hours *)

AverageSog == RDiv(RAdd(s_segment.start.sog, s_segment.end.sog), RInt(2))
\* the distance the sog implies and the distance of the segment, in
\* nautical miles
ImpliedDistance == RMul(Segment_hours(s_segment), AverageSog)
ActualDistance == Rat(Segment_distance(s_segment), 1852)
MinDistance ==
    RMul(ActualDistance, RSub(RInt(1), max_fuel_calc_distance_deviation))
MaxDistance ==
    RMul(ActualDistance, RAdd(RInt(1), max_fuel_calc_distance_deviation))

\* the factor of the claim before the cap
ClaimedFactor ==
    IF \/ ImpliedDistance = RInt(0)
       \/ RLe(MinDistance, ImpliedDistance) /\ RLe(ImpliedDistance, MaxDistance)
    THEN RInt(1)
    ELSE IF RLt(ImpliedDistance, MinDistance)
    THEN RDiv(MinDistance, ImpliedDistance)
    ELSE RDiv(MaxDistance, ImpliedDistance)

C17_ZeroSogUnchanged ==
    (/\ s_pc = "done"
     /\ AverageSog = RInt(0)
     /\ RLt(RInt(0), max_fuel_calc_duration_increase_factor)) =>
        s_hours = Segment_hours(s_segment)

-----------------------------------------------------------------------------
(* Properties of the EmissionCalculator *)

\* the cube of stw / max_speed times the sea margin factor
CubeLaw ==
    RMul(RDiv(RMul(c_stw, RMul(c_stw, c_stw)),
              RInt(c_vessel_info["max_speed"].n * c_vessel_info["max_speed"].n
                     * c_vessel_info["max_speed"].n)),
         sea_margin_adjustment_factor)

StwIsMaxSpeed == c_stw = RInt(c_vessel_info["max_speed"].n)

\* C18 as stated: propulsion_load_at_stw(stw) is the smaller of
\* (stw / max_speed)^3 * sea margin factor and 1; for every sea margin
\* factor it is 0 at stw = 0, exactly 1 at stw = max_speed and never above 1.
C18_LoadIsOneAtMaxSpeed ==
    c_op = "load" =>
        /\ c_load = RMin(CubeLaw, RInt(1))
        /\ c_stw = RInt(0) => c_load = RInt(0)
        /\ StwIsMaxSpeed => c_load = RInt(1)
        /\ RLe(c_load, RInt(1))

\* C18 amended: propulsion_load_at_stw(stw) is the smaller of
\* (stw / max_speed)^3 * sea margin factor and 1; it is 0 at stw = 0 and
\* never above 1 for every sea margin factor, and exactly 1 at
\* stw = max_speed for every sea margin factor of at least 1 (for a smaller
\* factor it is the factor).
C18_LoadIsOneAtMaxSpeedFromFactorOne ==
    c_op = "load" =>
        /\ c_load = RMin(CubeLaw, RInt(1))
        /\ c_stw = RInt(0) => c_load = RInt(0)
        /\ StwIsMaxSpeed =>
              IF RLe(RInt(1), sea_margin_adjustment_factor)
              THEN c_load = RInt(1)
              ELSE c_load = sea_margin_adjustment_factor
        /\ RLe(c_load, RInt(1))

\* the load at max_speed was asked for with a sea margin factor above 1 and
\* was clipped to 1
C18_Witness ==
    /\ c_op = "load"
    /\ StwIsMaxSpeed
    /\ RLt(RInt(1), sea_margin_adjustment_factor)
    /\ c_load = RInt(1)

\* C19: calculate_track_emissions takes exactly the modes transit and
\* maneuvering and calculate_mooring_emissions exactly hotelling and
\* anchorage; with any other mode, a mode of the other operation included,
\* the call raises an error, has resolved no emission config and has no
\* result; with a mode it takes, it raises nothing.
C19_OnlyTheOperationsModes ==
    /\ c_op = "track" =>
          IF c_mode \in {"transit", "maneuvering"}
          THEN c_error = "" /\ Len(c_config) = 1
          ELSE c_error # "" /\ c_config = <<>> /\ c_result = EmptyOpDict
    /\ c_op = "mooring" =>
          IF c_mode \in {"hotelling", "anchorage"}
          THEN c_error = "" /\ Len(c_config) = 1
          ELSE c_error # "" /\ c_config = <<>> /\ c_result = EmptyOpDict

\* calculate_track_emissions was called with a mode of
\* calculate_mooring_emissions and a track with segments, and failed
C19_Witness ==
    /\ c_op = "track"
    /\ c_mode = "hotelling"
    /\ c_track.segments # <<>>
    /\ c_error = "ValueError"
    /\ c_config = <<>>

\* the grams of a pollutant in an emission map, 0 if it is not in it
GramsOf(emissions, pollutant) ==
    IF pollutant \in DOMAIN emissions THEN emissions[pollutant] ELSE RInt(0)

\* the hours from the first to the last position of the track of the call
RawHours ==
    IF Len(c_track.positions) < 2 THEN RInt(0)
    ELSE Rat(c_track.positions[Len(c_track.positions)].ts
               - c_track.positions[1].ts, 3600)

\* the grams of a pollutant from the engines of a group that run for the
\* raw hours at the engine power of the group
NonPropulsionGrams(emission_config, engine_group, pollutant) ==
    IF pollutant \in DOMAIN emission_config.emission_factors[engine_group]
    THEN RMul(RMul(RInt(emission_config.engine_powers[engine_group].n),
                   RawHours),
              RInt(emission_config.emission_factors[engine_group][
                       pollutant].n))
    ELSE RInt(0)

RECURSIVE SumOfGrams(_)
\* the sum of a sequence of grams
SumOfGrams(grams) ==
    IF grams = <<>> THEN RInt(0)
    ELSE RAdd(Head(grams), SumOfGrams(Tail(grams)))

\* the emissions of the segments of the track of the call
SegmentEmissions(emission_config) ==
    [i \in DOMAIN c_track.segments |->
        segment_propulsion_emissions(calculator, c_track.segments[i],
                                     emission_config)]

\* C20: calculate_track_emissions resolves one EmissionConfig, that of the
\* vessel and the mode; its result has the pollutants of any segment's
\* propulsion emissions and of the auxiliary and boiler emission factors,
\* and for each of them the sum of the segments' propulsion emissions (0
\* where a segment has none) plus, for auxiliary and boiler, engine power x
\* raw hours of the track x emission factor; a track of fewer than two
\* positions has only the non-propulsion pollutants, all 0.
C20_TrackEmissionsAreTheSum ==
    (c_op = "track" /\ c_error = "") =>
        /\ c_config = <<emission_config_for(c_vessel_info, c_mode)>>
        /\ LET emission_config == c_config[1]
               segment_emissions == SegmentEmissions(emission_config)
               non_propulsion_pollutants ==
                   DOMAIN emission_config.emission_factors["auxiliary"]
                     \cup DOMAIN emission_config.emission_factors["boiler"]
           IN  /\ DOMAIN c_result =
                     UNION {DOMAIN segment_emissions[i] :
                               i \in DOMAIN segment_emissions}
                       \cup non_propulsion_pollutants
               /\ \A pollutant \in DOMAIN c_result :
                     c_result[pollutant] =
                         RAdd(SumOfGrams(
                                  [i \in DOMAIN segment_emissions |->
                                      GramsOf(segment_emissions[i],
                                              pollutant)]),
                              RAdd(NonPropulsionGrams(emission_config,
                                                      "auxiliary", pollutant),
                                   NonPropulsionGrams(emission_config,
                                                      "boiler", pollutant)))
               /\ Len(c_track.positions) < 2 =>
                     /\ DOMAIN c_result = non_propulsion_pollutants
                     /\ \A pollutant \in DOMAIN c_result :
                           c_result[pollutant] = RInt(0)

\* a track of two segments, one of which the sanitizer makes longer, gave
\* emissions of a pollutant that only the propulsion engines emit and of
\* one that they do not emit
C20_Witness ==
    /\ c_op = "track"
    /\ c_error = ""
    /\ Len(c_track.segments) = 2
    /\ \E i \in DOMAIN c_track.segments :
          adjusted_segment_hours(max_fuel_calc_distance_deviation,
                                 max_fuel_calc_duration_increase_factor,
                                 c_track.segments[i])
            # Segment_hours(c_track.segments[i])
    /\ \E emission_config \in {c_config[i] : i \in DOMAIN c_config} :
          /\ \E pollutant \in DOMAIN c_result :
                /\ pollutant \notin
                      DOMAIN emission_config.emission_factors["propulsion"]
                /\ c_result[pollutant] # RInt(0)
          /\ \E pollutant \in DOMAIN c_result :
                /\ pollutant \notin
                      DOMAIN emission_config.emission_factors["auxiliary"]
                         \cup DOMAIN emission_config.emission_factors["boiler"]
                /\ c_result[pollutant] # RInt(0)

-----------------------------------------------------------------------------
(* Properties of the engine powers of config_for *)

\* C21: with rules that passed _assert_valid_config, for every vessel, mode
\* and each of auxiliary and boiler some engine-power rule matches, and the
\* power config_for returns is data[mode] of the first rule that matches in
\* list order; the loop never ends without a match.
C21_PowerOfFirstMatchingRule ==
    e_pc = "done" =>
        \A e \in ENGINE_POWER_ENGINE_GROUPS :
            LET i == FirstRule(engine_powers, EmissionValues(e))
            IN  /\ i # 0
                /\ e_config.engine_powers[e] = engine_powers[i].data[e_mode]

\* two rules match for auxiliary and have different powers, and the power is
\* that of the first of them
C21_Witness ==
    /\ e_pc = "done"
    /\ \E i, j \in DOMAIN engine_powers :
          /\ i < j
          /\ MatchConfig_matches(engine_powers[i],
                                 EmissionValues("auxiliary")) = "True"
          /\ MatchConfig_matches(engine_powers[j],
                                 EmissionValues("auxiliary")) = "True"
          /\ engine_powers[i].data[e_mode] # engine_powers[j].data[e_mode]
          /\ e_config.engine_powers["auxiliary"]
                = engine_powers[i].data[e_mode]

-----------------------------------------------------------------------------
(* Properties of the outlier rejection of sanitized_from_positions *)

RECURSIVE SumOfNumbers(_)
\* the sum of a sequence of integers
SumOfNumbers(numbers) ==
    IF numbers = <<>> THEN 0 ELSE Head(numbers) + SumOfNumbers(Tail(numbers))

\* whether the predicate accepts the way from the mean of the position dicts
\* with the given indices to position dict i
PlausibleFromMeanOf(indices, i) ==
    distance_covered_is_plausible(
        t_distance_kind,
        Rat(SumOfNumbers([j \in DOMAIN indices |-> t_dicts[indices[j]]["ts"].n]),
            Len(indices)),
        Rat(SumOfNumbers([j \in DOMAIN indices |->
                             t_dicts[indices[j]]["lon"].n]), Len(indices)),
        Rat(SumOfNumbers([j \in DOMAIN indices |->
                             t_dicts[indices[j]]["lat"].n]), Len(indices)),
        RInt(t_dicts[i]["ts"].n), RInt(t_dicts[i]["lon"].n),
        RInt(t_dicts[i]["lat"].n))

\* the last up to 3 of a sequence of indices
LastThree(indices) ==
    SubSeq(indices, IF Len(indices) > 3 THEN Len(indices) - 2 ELSE 1,
           Len(indices))

RECURSIVE AcceptedFrom(_, _)
\* the indices of the position dicts that are accepted if dict i is compared
\* with the mean of the last up to 3 accepted before it
AcceptedFrom(i, accepted) ==
    IF i > Len(t_dicts) THEN accepted
    ELSE IF accepted = <<>> \/ PlausibleFromMeanOf(LastThree(accepted), i)
    THEN AcceptedFrom(i + 1, Append(accepted, i))
    ELSE AcceptedFrom(i + 1, accepted)

\* the indices of the up to 3 position dicts of the input right before i
InputBefore(i) ==
    [j \in 1..(IF i > 3 THEN 3 ELSE i - 1) |-> (IF i > 3 THEN i - 4 ELSE 0) + j]

\* the indices of the position dicts that are accepted if dict i is compared
\* with the mean of the up to 3 dicts of the input right before it
AcceptedOfInput ==
    {i \in DOMAIN t_dicts : i = 1 \/ PlausibleFromMeanOf(InputBefore(i), i)}

\* C22 as stated: a position dict is discarded iff
\* distance_covered_is_plausible is false for the mean (ts, lon, lat) of the
\* up to 3 most recent dicts before it that were accepted and the dict; a
\* discarded dict never enters the mean and the first dict is never
\* discarded.
C22_OutlierOfAcceptedMean ==
    (t_op = "sanitized" /\ t_result = "ok") =>
        LET accepted == AcceptedFrom(1, <<>>)
        IN  /\ Len(t_track.positions) = Len(accepted)
            /\ \A j \in DOMAIN accepted :
                  /\ j \in DOMAIN t_track.positions
                  /\ t_track.positions[j].ts = t_dicts[accepted[j]]["ts"].n
                  /\ t_track.positions[j].lon = t_dicts[accepted[j]]["lon"].n

\* C22 amended: a position dict is discarded iff
\* distance_covered_is_plausible is false for the mean (ts, lon, lat) of the
\* up to 3 position dicts right before it in the input, whether they were
\* accepted or discarded, and the dict; the first dict is never discarded.
C22_OutlierOfInputMean ==
    (t_op = "sanitized" /\ t_result = "ok") =>
        /\ Cardinality({t_track.positions[j].ts :
                           j \in DOMAIN t_track.positions})
             = Len(t_track.positions)
        /\ {<<t_track.positions[j].ts, t_track.positions[j].lon>> :
               j \in DOMAIN t_track.positions}
             = {<<t_dicts[i]["ts"].n, t_dicts[i]["lon"].n>> :
                   i \in AcceptedOfInput}
        /\ t_dicts # <<>> =>
              /\ t_track.positions # <<>>
              /\ t_track.positions[1].ts = t_dicts[1]["ts"].n

\* of five position dicts the second and the fourth were discarded, and the
\* fifth would have been discarded too had the mean been that of the
\* accepted dicts or that of all dicts before it
C22_Witness ==
    /\ t_op = "sanitized"
    /\ t_result = "ok"
    /\ Len(t_dicts) = 5
    /\ AcceptedOfInput = {1, 3, 5}
    /\ ~PlausibleFromMeanOf(<<1, 3>>, 5)
    /\ ~PlausibleFromMeanOf(<<1, 2, 3, 4>>, 5)

-----------------------------------------------------------------------------
(* Properties of segment_propulsion_emissions *)

\* the load at a speed through water: the cube of stw / max_speed times the
\* sea margin factor, at most 1
LoadAt(stw) ==
    RMin(RMul(RDiv(RMul(stw, RMul(stw, stw)),
                   RInt(c_vessel_info["max_speed"].n
                          * c_vessel_info["max_speed"].n
                          * c_vessel_info["max_speed"].n)),
              sea_margin_adjustment_factor),
         RInt(1))

\* the mean of the loads at the ends of the segment of the call
SegmentLoad ==
    RDiv(RAdd(LoadAt(Position_stw(c_track.segments[1].start)),
              LoadAt(Position_stw(c_track.segments[1].end))), RInt(2))

\* the emissions of the propulsion engines before the adjustment
BaseEmissions ==
    [pollutant \in DOMAIN c_config[1].emission_factors["propulsion"] |->
        RMul(RMul(RMul(RInt(c_vessel_info["engine_kw"].n),
                       adjusted_segment_hours(
                           max_fuel_calc_distance_deviation,
                           max_fuel_calc_duration_increase_factor,
                           c_track.segments[1])),
                  SegmentLoad),
             RInt(c_config[1].emission_factors["propulsion"][pollutant].n))]

\* the indices of the ranges that contain the load of the segment
RangesWithLoad ==
    {i \in DOMAIN c_config[1].low_load_adjustment_factors :
        LET range == c_config[1].low_load_adjustment_factors[i].range
        IN  RLe(RInt(range.ge.n), SegmentLoad)
              /\ RLt(SegmentLoad, RInt(range.lt.n))}

\* C23: segment_propulsion_emissions applies the factors of the first range
\* in list order that contains the load of the segment, the mean of the
\* loads at its start and end stw: a base pollutant the factors name is
\* multiplied by its factor, another base pollutant is unchanged, a
\* pollutant only the factors name is not in the result, and without a range
\* that contains the load the result is the base emissions.
C23_FirstRangeWithLoad ==
    c_op = "segment" =>
        /\ DOMAIN c_result = DOMAIN BaseEmissions
        /\ \A pollutant \in DOMAIN c_result :
              IF RangesWithLoad = {}
              THEN c_result[pollutant] = BaseEmissions[pollutant]
              ELSE LET i == CHOOSE i \in RangesWithLoad :
                                \A j \in RangesWithLoad : i <= j
                       factors ==
                           c_config[1].low_load_adjustment_factors[i].factors
                   IN  c_result[pollutant] =
                           IF pollutant \in DOMAIN factors
                           THEN RMul(BaseEmissions[pollutant],
                                     RInt(factors[pollutant].n))
                           ELSE BaseEmissions[pollutant]

\* two ranges contain the load; of the factors of the first, one is of a
\* base pollutant with emissions and one of no base pollutant, and the
\* factors of the second name a base pollutant that those of the first do
\* not name
C23_Witness ==
    /\ c_op = "segment"
    /\ Cardinality(RangesWithLoad) = 2
    /\ LET range_factors == c_config[1].low_load_adjustment_factors
           first == range_factors[1].factors
           second == range_factors[2].factors
       IN  /\ \E pollutant \in DOMAIN first \cap DOMAIN BaseEmissions :
                 /\ BaseEmissions[pollutant] # RInt(0)
                 /\ first[pollutant] # Num(1)
           /\ DOMAIN first \ DOMAIN BaseEmissions # {}
           /\ \E pollutant \in (DOMAIN second \cap DOMAIN BaseEmissions)
                                 \ DOMAIN first :
                 /\ BaseEmissions[pollutant] # RInt(0)
                 /\ second[pollutant] # Num(1)

-----------------------------------------------------------------------------
(* Properties of the pollutants config_for leaves out *)

\* whether the first pollutant rule that matches for a pollutant and an
\* engine group exists and has a base value with a matching rule
Resolves(p, e) ==
    LET i == FirstRule(pollutants[p], EmissionValues(e))
    IN  /\ i # 0
        /\ FirstRule(base_values[pollutants[p][i].data["base_value_name"].s],
                     EmissionValues(e)) # 0

\* C24: config_for returns a config with factors for the three engine
\* groups and powers for auxiliary and boiler, in which a pollutant is in
\* the factors of an engine group iff a pollutant rule matches and the
\* base value of the first one that matches has a matching rule; a later
\* matching pollutant rule is not tried, and the other pollutants and
\* groups are not affected.
C24_UnresolvedPollutantLeftOut ==
    e_pc = "done" =>
        /\ DOMAIN e_config.emission_factors = EMISSIONS_ENGINE_GROUPS
        /\ DOMAIN e_config.engine_powers = ENGINE_POWER_ENGINE_GROUPS
        /\ \A e \in EMISSIONS_ENGINE_GROUPS :
              /\ DOMAIN e_config.emission_factors[e] \subseteq DOMAIN pollutants
              /\ \A p \in DOMAIN pollutants :
                    p \in DOMAIN e_config.emission_factors[e]
                       <=> Resolves(p, e)

\* for propulsion the base value of the first matching rule of p1 has no
\* matching rule and that of a later matching rule has one, so p1 is not in
\* the factors of propulsion; p1 and p2 are in the factors of auxiliary
C24_Witness ==
    /\ e_pc = "done"
    /\ LET i == FirstRule(pollutants["p1"], EmissionValues("propulsion"))
       IN  /\ i # 0
           /\ ~Resolves("p1", "propulsion")
           /\ \E j \in DOMAIN pollutants["p1"] :
                 /\ j > i
                 /\ MatchConfig_matches(pollutants["p1"][j],
                                        EmissionValues("propulsion")) = "True"
                 /\ FirstRule(base_values[
                                  pollutants["p1"][j].data[
                                      "base_value_name"].s],
                              EmissionValues("propulsion")) # 0
    /\ "p1" \notin DOMAIN e_config.emission_factors["propulsion"]
    /\ "p1" \in DOMAIN e_config.emission_factors["auxiliary"]
    /\ "p2" \in DOMAIN e_config.emission_factors["auxiliary"]

-----------------------------------------------------------------------------
(* Properties of the validation of the engine-power rules *)

\* whether a rule is without criteria, or has a criterion on engine_group
\* only that matches the group
DefaultFor(rule, group) ==
    \/ rule.criteria = <<>>
    \/ /\ {rule.criteria[i].name : i \in DOMAIN rule.criteria}
            = {"engine_group"}
       /\ \A i \in DOMAIN rule.criteria :
             Criterion_matches(rule.criteria[i],
                               Dict1("engine_group", Str(group))) = "True"

\* C25: the constructor accepts the engine-power rules iff every rule has a
\* number for every mode and, for auxiliary and for boiler, some rule is
\* without criteria or matches on engine_group only and covers the group; a
\* rule without criteria and with numbers for the four modes is enough for
\* both groups.
C25_AcceptedIffDefaultsForBothGroups ==
    k_result # "" =>
        (k_result = "ok" <=>
            /\ \A i \in DOMAIN k_engine_powers : \A mode \in Mode :
                  /\ mode \in DOMAIN k_engine_powers[i].data
                  /\ k_engine_powers[i].data[mode].t = "num"
            /\ \A group \in ENGINE_POWER_ENGINE_GROUPS :
                  \E i \in DOMAIN k_engine_powers :
                      DefaultFor(k_engine_powers[i], group))

-----------------------------------------------------------------------------
(* Properties of surrounding_context_iter *)

\* the smaller and the larger of two numbers
Smaller(a, b) == IF a < b THEN a ELSE b
Larger(a, b) == IF a > b THEN a ELSE b

\* every yield so far is right: the i-th has the i-th element as current,
\* the up to past_context_size elements before it as past and the up to
\* future_context_size elements after it as future
YieldsInOrder ==
    /\ Len(i_yielded) <= Len(i_iterable)
    /\ \A i \in DOMAIN i_yielded :
          /\ i_yielded[i][2] = i_iterable[i]
          /\ i_yielded[i][1] =
                SubSeq(i_iterable, Larger(1, i - past_context_size), i - 1)
          /\ i_yielded[i][3] =
                SubSeq(i_iterable, i + 1,
                       Smaller(Len(i_iterable), i + future_context_size))
          /\ future_context_size = 0 => i_yielded[i][3] = <<>>
    /\ i_pc = "done" => Len(i_yielded) = Len(i_iterable)

\* C26: surrounding_context_iter(seq, P, F) with P >= 1 and F >= 0 yields one
\* triple per element of seq, in order: at the i-th yield current is the
\* i-th element, past the up to P elements before it and future the up to F
\* elements after it, in order (empty when F = 0); nothing is yielded for an
\* empty seq, and the iteration ends.
C26_OneTriplePerElement == []YieldsInOrder /\ <>(i_pc = "done")

\* the iteration over four elements has ended; the deque past was full and
\* lost its oldest element, and the deque future was full at a yield
C26_Witness ==
    /\ i_pc = "done"
    /\ Len(i_iterable) = 4
    /\ Len(i_yielded) = 4
    /\ past_context_size = 2
    /\ future_context_size = 1
    /\ i_yielded[4][1] = SubSeq(i_iterable, 2, 3)
    /\ i_yielded[1][3] = SubSeq(i_iterable, 2, 2)
    /\ i_iterable[1] # i_iterable[2]

-----------------------------------------------------------------------------
(* Properties of Track.partial_track *)

\* the timestamps of the positions never decrease
NonDecreasing(positions) ==
    \A i \in DOMAIN positions :
        i > 1 => positions[i - 1].ts <= positions[i].ts

\* the positions of the track within the interval of the call
WithinInterval ==
    LET Within(p) == b_start_ts <= p.ts /\ p.ts <= b_end_ts
    IN  SelectSeq(t_track.positions, Within)

\* the segments that connect consecutive positions
Connecting(positions) ==
    [i \in 1..(Len(positions) - 1) |->
        Segment(positions[i], positions[i + 1])]

\* C27: for a Track with non-decreasing timestamps and start_ts <= end_ts,
\* partial_track returns the positions with start_ts <= ts <= end_ts, in
\* order, and the segments that connect consecutive returned positions, so
\* no positions implies no segments; the track is not modified, and
\* start_ts > end_ts raises an error.
C27_PartialTrackIsTheInterval ==
    b_op = "partial" =>
        /\ t_track = b_before
        /\ b_start_ts > b_end_ts => b_error = "ValueError"
        /\ b_start_ts <= b_end_ts /\ NonDecreasing(t_track.positions) =>
              /\ b_error = ""
              /\ b_returned.positions = WithinInterval
              /\ b_returned.segments = Connecting(WithinInterval)
              /\ b_returned.positions = <<>> => b_returned.segments = <<>>

-----------------------------------------------------------------------------
(* Properties of the second pass of guess_missing_vessel_info *)

\* the second pass has begun: _maybe_improve_nox_tier_guess has computed
\* the keel_laid_year
SecondPassRuns == g_pc \in {"pass2", "done"} /\ g_kly # None

\* C28: the second pass changes no attribute other than engine_nox_tier:
\* every other field of the result is as it was at the end of the first
\* pass, and engine_nox_tier is present again in the result; the second
\* pass never fails to find a build time or to refill the tier.
C28_SecondPassChangesNoxTierOnly ==
    /\ SecondPassRuns =>
          /\ \A k \in FIELD_NAMES \ {"engine_nox_tier"} :
                /\ k \in DOMAIN g_attrs <=> k \in DOMAIN g_attrs1
                /\ k \in DOMAIN g_attrs => g_attrs[k] = g_attrs1[k]
          /\ g_pc = "done" => "engine_nox_tier" \in DOMAIN g_attrs
    /\ g_pc = "raised" => g_error \notin {"StopIteration", "KeyError"}

\* the second pass ran and replaced the tier of the first pass
C28_Witness ==
    /\ g_pc = "done"
    /\ g_kly # None
    /\ g_attrs["engine_nox_tier"] # g_attrs1["engine_nox_tier"]
    /\ DOMAIN g_attrs = FIELD_NAMES

-----------------------------------------------------------------------------
(* None and absent fields in the input of guess_missing_vessel_info *)

\* the input of the call without the names supplied as None
InputWithoutNone ==
    [k \in {j \in DOMAIN g_input : g_input[j] # None} |-> g_input[k]]

\* what the call returns or raises for the input without the names
\* supplied as None
ResultWithoutNone ==
    guess_missing_vessel_info(guess_data, average_vessel_build_times,
                              InputWithoutNone)

\* C29: guess_missing_vessel_info treats a field supplied as None exactly
\* like an absent field: the result for an input with engine_nox_tier=None
\* (or any other field set to None) equals the result for the same input
\* with that key omitted, also when the conditions of the second pass hold.
C29_NoneIsLikeAbsent ==
    /\ g_pc = "done" => /\ ResultWithoutNone.error = ""
                        /\ ResultWithoutNone.attrs = g_attrs
    /\ g_pc = "raised" => ResultWithoutNone.error = g_error

-----------------------------------------------------------------------------
(* Properties of the sog and cog sanitized_from_positions calculates *)

\* the speed in knots between two position dicts, 0 if they have the same
\* timestamp
Knots(left, right) ==
    IF left["ts"].n = right["ts"].n THEN RInt(0)
    ELSE RDiv(RDiv(RInt(great_circle_distance(left["lon"].n, left["lat"].n,
                                              right["lon"].n,
                                              right["lat"].n)),
                   RInt(1852)),
              Rat(right["ts"].n - left["ts"].n, 3600))

\* the number of neighbours the i-th position dict has in the input
Neighbours(i) ==
    (IF i > 1 THEN 1 ELSE 0) + (IF i < Len(t_dicts) THEN 1 ELSE 0)

\* the sog calculated from the neighbours of the i-th position dict in the
\* input: the sum of the speeds of the pairs over the number of pairs,
\* capped
SogOfNeighbours(i) ==
    LET before == IF i > 1 THEN Knots(t_dicts[i - 1], t_dicts[i])
                  ELSE RInt(0)
        after == IF i < Len(t_dicts) THEN Knots(t_dicts[i], t_dicts[i + 1])
                 ELSE RInt(0)
    IN  IF Neighbours(i) = 0 THEN RInt(0)
        ELSE RMin(RDiv(RAdd(before, after), RInt(Neighbours(i))),
                  RInt(MAX_CALCULATED_SPEED))

\* the cog calculated from the neighbours of the i-th position dict in the
\* input
CogOfNeighbours(i) ==
    LET before == bearing(t_dicts[i - 1]["lon"].n, t_dicts[i - 1]["lat"].n,
                          t_dicts[i]["lon"].n, t_dicts[i]["lat"].n)
        after == bearing(t_dicts[i]["lon"].n, t_dicts[i]["lat"].n,
                         t_dicts[i + 1]["lon"].n, t_dicts[i + 1]["lat"].n)
    IN  CASE Neighbours(i) = 0 -> 0
          [] Neighbours(i) = 2 -> average_bearing(before, after)
          [] i > 1 -> before
          [] OTHER -> after

\* the sog of the i-th position dict is calculated
SogIsCalculated(i) ==
    \/ t_dicts[i]["sog"] = None
    \/ ~sog_is_plausible(t_sog_kind, RInt(t_dicts[i]["sog"].n))

\* C30: the sog or cog sanitized_from_positions calculates for an accepted
\* record comes from the records immediately before and after it in the
\* input (one pair if there is one neighbour, 0 if there is none), whether
\* or not those are discarded as outliers; a pair with no time between its
\* records adds 0 to the sum of speeds and counts in the divisor; the
\* calculated sog is at most MAX_CALCULATED_SPEED, and a reported plausible
\* sog is not capped.
C30_SogAndCogOfRawNeighbours ==
    (t_op = "sanitized" /\ t_result = "ok") =>
        /\ Len(t_track.positions) = Len(Kept)
        /\ \A j \in DOMAIN Kept :
              LET i == Kept[j]
                  sog == t_track.positions[j].sog
              IN  /\ SogIsCalculated(i) =>
                        /\ RLe(sog, SogOfNeighbours(i))
                        /\ RLe(SogOfNeighbours(i), sog)
                        /\ RLe(sog, RInt(MAX_CALCULATED_SPEED))
                  /\ ~SogIsCalculated(i) => sog = RInt(t_dicts[i]["sog"].n)
                  /\ t_dicts[i]["cog"] = None =>
                        t_track.positions[j].cog = CogOfNeighbours(i)

\* the second of three records is accepted without a sog; the first has
\* its timestamp, the third is 2 degrees further ten hours later and is
\* discarded: the sog is (0 + 12) / 2
C30_Witness ==
    /\ t_op = "sanitized"
    /\ t_result = "ok"
    /\ Len(t_dicts) = 3
    /\ Kept = <<1, 2>>
    /\ t_dicts[2]["sog"] = None
    /\ t_dicts[1]["ts"] = t_dicts[2]["ts"]
    /\ t_dicts[3]["ts"] # t_dicts[2]["ts"]
    /\ t_track.positions[2].sog = RInt(6)

====
